---- MODULE Spec2Model ----
(***************************************************************************)
(* usdc-speedtest: the concurrent load-testing engine.                     *)
(*                                                                         *)
(* runTest (test/runner) arms a deadline timer and a SIGINT handler that   *)
(* share one stopSignal, starts one runTester (test/tester) per wallet     *)
(* pair, joins them and hands (testEndTime - startTime) to computeStats.   *)
(* Each runTester ping-pongs one USDC cent between the two wallets of its  *)
(* pair, with retry/backoff, local nonce tracking and a return leg.        *)
(*                                                                         *)
(* One action of the model is one run-to-completion step of the JavaScript *)
(* event loop: the code between two awaits of one async function, or one   *)
(* timer / signal callback.  The RPC endpoint and the ledger behind it are *)
(* the environment; their answers are chosen nondeterministically.         *)
(***************************************************************************)
EXTENDS Integers, Sequences, FiniteSets, TLC

\* ------------------------------------------------------------------ bounds
\* A Tester starts a new main-loop transfer only while it holds fewer records.
MaxTransfers == 2
\* Date.now() is observed at 1..MaxTime seconds.
MaxTime == 3
\* runTest's durationSec is drawn from 1..MaxDurationSec.
MaxDurationSec == 1
\* The event-driven strategy is delivered at most MaxBlocks "block" events.
MaxBlocks == 2
\* computeStats is given at most MaxResults results of at most MaxTxs records.
MaxResults == 2
MaxTxs == 2
\* percentile is given sorted lists of at most MaxSorted latencies.
MaxSorted == 5
\* pMap is given at most MaxItems items and a concurrency of at most MaxLimit.
MaxItems == 3
MaxLimit == 3
\* runTest is given at most MaxPairs pairs when its pre-flight check is modelled.
MaxPairs == 2
\* generateCurve is followed up to MaxWaypoints waypoints.
MaxWaypoints == 5
MaxReads == 3
MaxConfirms == 3
MaxTicks == 3
MaxSweepWallets == 2

\* ------------------------------------------------------- program constants
MAX_RETRIES == 3
RETRY_BASE_MS == 500
MsPerSec == 1000
WS_READY_TIMEOUT_MS == 5000
USDC_CENT == 10000
PREFLIGHT_CONCURRENCY == 10

\* The wallet pairs handed to runTest, by index (one Tester each).  Testers
\* share nothing but stopSignal, which they only read.
Pairs == {1}
Accounts == {"A", "B"}

\* ------------------------------------------------------------------ errors
\* An error value as isTransientError inspects it: a lower-cased message and
\* a code.  NoErr stands for "no error caught in the current attempt".
NoErr == [message |-> "", code |-> "-"]
ErrTimeout == [message |-> "request timeout", code |-> "UNKNOWN_ERROR"]
ErrServer == [message |-> "internal error", code |-> "SERVER_ERROR"]
ErrNonce == [message |-> "nonce too low", code |-> "NONCE_EXPIRED"]
ErrBadData == [message |-> "could not decode result data", code |-> "BAD_DATA"]
ErrReverted == [message |-> "transaction reverted on-chain", code |-> "-"]
ErrInvalidUrl == [message |-> "invalid url", code |-> "ERR_INVALID_URL"]

\* Errors the endpoint can answer any call with.
RpcErrors == {ErrTimeout, ErrServer, ErrBadData}
\* Endpoint errors that leave open whether the request was carried out.
LostErrors == {ErrTimeout}

\* Messages of the model that contain one of the substrings isTransientError
\* searches for ("timeout", "rate limit", "429", ...).
TransientMessages == {"request timeout"}
TransientCodes == {"TIMEOUT", "NETWORK_ERROR", "SERVER_ERROR"}

isTransientError(err) ==
    \/ err.message \in TransientMessages
    \/ err.code \in TransientCodes

\* ------------------------------------------------------------- the ledger
\* A transaction is identified by its sender account and nonce (its hash).
NoTx == [from |-> "-", nonce |-> -1]
Other(a) == IF a = "A" THEN "B" ELSE "A"

\* The endpoint takes tx into its pool: the nonce is not used up yet and the
\* same transaction is not already pending.
Acceptable(l, tx) == tx.nonce >= l.nonce[tx.from] /\ tx \notin l.pool
Accept(l, tx) == [l EXCEPT !.pool = @ \cup {tx}]
\* The ledger executes tx: the nonce is consumed; the cent moves iff the
\* transfer does not revert (ok) and the sender holds it.
Execute(l, tx, ok) ==
    LET moved == ok /\ l.unitOn = tx.from
    IN  [l EXCEPT !.pool = @ \ {tx},
                  !.nonce[tx.from] = @ + 1,
                  !.unitOn = IF moved THEN Other(tx.from) ELSE @,
                  !.receipts = @ \cup {[tx |-> tx, status |-> IF moved THEN 1 ELSE 0]}]
HasReceipt(l, tx) == \E rc \in l.receipts : rc.tx = tx
ReceiptOf(l, tx) == CHOOSE rc \in l.receipts : rc.tx = tx

\* ------------------------------------------------- runTester, step by step
NoExit == [n |-> -1, clean |-> FALSE, err |-> NoErr, stopSeen |-> FALSE, left |-> FALSE]
NoResult == [transactions |-> <<>>, completedCleanly |-> FALSE, returned |-> FALSE]

\* The locals of one runTester call before its first await returns.
InitTester ==
    [pc |-> "start",
     initNonceA |-> 0, initNonceB |-> 0, nonceA |-> 0, nonceB |-> 0,
     transactions |-> <<>>, usdcOnA |-> TRUE, erroredOut |-> FALSE,
     direction |-> "A->B", nonce |-> 0, attempt |-> 0, retAttempt |-> 0,
     tx |-> NoTx, err |-> NoErr,
     \* History kept for the properties: the record count when the current
     \* transfer began; the sendTransaction calls and the sleeps of the
     \* current transfer and of the return leg; what the last step read from
     \* stopSignal.stopped ("unread", "clear", "set"); and the record count,
     \* clean flag, caught error and flag value when the main loop was left.
     base |-> 0, submissions |-> 0, sleeps |-> <<>>,
     retSubmissions |-> 0, retSleeps |-> <<>>,
     stopRead |-> "unread", exit |-> NoExit,
     result |-> NoResult]

\* return { pairIndex, transactions, completedCleanly: !erroredOut }
Return(r) ==
    [r EXCEPT !.pc = "done",
              !.result = [transactions |-> r.transactions,
                          completedCleanly |-> ~r.erroredOut,
                          returned |-> TRUE]]

\* walletB.sendTransaction({... nonce: nonceB ...}) of the return leg
RetSend(r) ==
    [r EXCEPT !.pc = "retSend",
              !.tx = [from |-> "B", nonce |-> r.nonceB],
              !.err = NoErr,
              !.retSubmissions = @ + 1]

\* for-header of the return leg
RetForTop(r) == IF r.retAttempt <= MAX_RETRIES THEN RetSend(r) ELSE Return(r)

\* Faulty variant of ReturnLeg: the return leg is skipped after an errored loop.
ReturnLegOnlyWhenClean(r) ==
    IF ~r.usdcOnA /\ ~r.erroredOut THEN RetForTop([r EXCEPT !.retAttempt = 0]) ELSE Return(r)

\* if (!usdcOnA) { for (attempt = 0; ...) ... }  return ...
ReturnLeg(r) ==
    IF ~r.usdcOnA THEN RetForTop([r EXCEPT !.retAttempt = 0]) ELSE Return(r)

\* The code after the main loop, entered once.
AfterLoop(r) ==
    ReturnLeg([r EXCEPT !.exit = [n |-> Len(r.transactions), clean |-> ~r.erroredOut,
                                  err |-> r.err, stopSeen |-> r.stopRead = "set",
                                  left |-> TRUE]])

\* After the for loop with succeeded = false:
\*   if (!succeeded && !stopSignal.stopped) { erroredOut = true; break; }
\*   if (!succeeded) break;
Read(stop) == IF stop THEN "set" ELSE "clear"

LoopEnd(r, stop) ==
    LET x == [r EXCEPT !.stopRead = Read(stop)]
    IN  IF ~stop THEN AfterLoop([x EXCEPT !.erroredOut = TRUE]) ELSE AfterLoop(x)

\* wallet.sendTransaction({... nonce ...}) (or sign + rpcSendRawTx) of the
\* main loop
SendTransfer(r) ==
    [r EXCEPT !.pc = "send",
              !.tx = [from |-> IF r.direction = "A->B" THEN "A" ELSE "B",
                      nonce |-> r.nonce],
              !.err = NoErr,
              !.submissions = @ + 1]

\* Faulty variant of ForTop: a retry is made without looking at the stop signal.
ForTopIgnoresStop(r, stop) ==
    IF r.attempt > MAX_RETRIES
    THEN LoopEnd(r, stop)
    ELSE SendTransfer([r EXCEPT !.stopRead = Read(stop)])

\* for (...; attempt <= MAX_RETRIES; ...) { if (stopSignal.stopped) break; try {
ForTop(r, stop) ==
    IF r.attempt > MAX_RETRIES
    THEN LoopEnd(r, stop)
    ELSE IF stop THEN LoopEnd(r, stop)
                 ELSE SendTransfer([r EXCEPT !.stopRead = Read(stop)])

\* while (!stopSignal.stopped) { wallet, data, direction, nonce; attempt = 0
WhileTop(r, stop) ==
    LET x == [r EXCEPT !.stopRead = Read(stop)]
    IN  IF stop
        THEN AfterLoop(x)
        ELSE ForTop([x EXCEPT !.direction = IF r.usdcOnA THEN "A->B" ELSE "B->A",
                              !.nonce = IF r.usdcOnA THEN r.nonceA ELSE r.nonceB,
                              !.attempt = 0,
                              !.base = Len(r.transactions),
                              !.submissions = 0,
                              !.sleeps = <<>>], stop)

\* Faulty variant of Broadcast: the stop signal is looked at between the submission
\* and the confirmation wait, and a set signal abandons the attempt.
BroadcastChecksStop(r, stop) ==
    IF stop THEN LoopEnd(r, stop) ELSE [r EXCEPT !.pc = "wait", !.stopRead = "clear"]

\* sendTransaction resolved: const receipt = await waitForReceipt(...)
Broadcast(r, stop) == [r EXCEPT !.pc = "wait", !.stopRead = "unread"]

\* Faulty variant of Succeed: usdcOnA is not flipped after a success.
SucceedKeepsSide(r, stop) ==
    WhileTop([r EXCEPT !.transactions = Append(@, [txHash |-> r.tx, direction |-> r.direction]),
                       !.nonceA = IF r.usdcOnA THEN @ + 1 ELSE @,
                       !.nonceB = IF r.usdcOnA THEN @ ELSE @ + 1], stop)

\* Faulty variant of Succeed: nonceA is advanced whatever the direction.
SucceedBumpsNonceA(r, stop) ==
    WhileTop([r EXCEPT !.transactions = Append(@, [txHash |-> r.tx, direction |-> r.direction]),
                       !.nonceA = @ + 1,
                       !.usdcOnA = ~@], stop)

\* transactions.push(...); nonce++; usdcOnA = !usdcOnA; succeeded = true; break
\* and, succeeded being true, on to the while condition.
Succeed(r, stop) ==
    WhileTop([r EXCEPT !.transactions = Append(@, [txHash |-> r.tx, direction |-> r.direction]),
                       !.nonceA = IF r.usdcOnA THEN @ + 1 ELSE @,
                       !.nonceB = IF r.usdcOnA THEN @ ELSE @ + 1,
                       !.usdcOnA = ~@], stop)

\* Faulty variant of RetryDelay: linear instead of exponential backoff.
RetryDelayLinear(attempt) == RETRY_BASE_MS * (attempt + 1)

\* The retry delay after failed attempt number `attempt`.
RetryDelay(attempt) == RETRY_BASE_MS * 2 ^ attempt

\* Faulty variant of Catch: one retry too many (attempt <= MAX_RETRIES).
CatchOffByOne(r, e, stop) ==
    LET x == [r EXCEPT !.err = e, !.stopRead = Read(stop)]
    IN  IF stop
        THEN LoopEnd(x, stop)
        ELSE IF isTransientError(e) /\ x.attempt <= MAX_RETRIES
             THEN [x EXCEPT !.pc = "sleep", !.sleeps = Append(@, RetryDelay(x.attempt))]
             ELSE LoopEnd(x, stop)

\* Faulty variant of Catch: every error is retried, transient or not.
CatchRetriesAll(r, e, stop) ==
    LET x == [r EXCEPT !.err = e, !.stopRead = Read(stop)]
    IN  IF stop
        THEN LoopEnd(x, stop)
        ELSE IF x.attempt < MAX_RETRIES
             THEN [x EXCEPT !.pc = "sleep", !.sleeps = Append(@, RetryDelay(x.attempt))]
             ELSE LoopEnd(x, stop)

\* Faulty variant of Catch: the stop signal is not looked at before a retry.
CatchIgnoresStop(r, e, stop) ==
    LET x == [r EXCEPT !.err = e, !.stopRead = Read(stop)]
    IN  IF isTransientError(e) /\ x.attempt < MAX_RETRIES
        THEN [x EXCEPT !.pc = "sleep", !.sleeps = Append(@, RetryDelay(x.attempt))]
        ELSE LoopEnd(x, stop)

\* catch (err) of the main loop
Catch(r, e, stop) ==
    LET x == [r EXCEPT !.err = e, !.stopRead = Read(stop)]
    IN  IF stop
        THEN LoopEnd(x, stop)
        ELSE IF isTransientError(e) /\ x.attempt < MAX_RETRIES
             THEN [x EXCEPT !.pc = "sleep", !.sleeps = Append(@, RetryDelay(x.attempt))]
             ELSE LoopEnd(x, stop)

\* await sleep(delay) is over: continue -> attempt++ -> for-header
Wake(r, stop) == ForTop([r EXCEPT !.attempt = @ + 1], stop)

\* return leg: sendTransaction resolved, await waitForReceipt(...)
RetBroadcast(r) == [r EXCEPT !.pc = "retWait", !.stopRead = "unread"]

\* return leg: waitForReceipt resolved: break
RetSucceed(r) == Return([r EXCEPT !.stopRead = "unread"])

\* Faulty variant of RetCatch: a failed return leg marks the Tester as errored.
RetCatchMarksErrored(r, e) ==
    LET x == [r EXCEPT !.err = e, !.stopRead = "unread"]
    IN  IF isTransientError(e) /\ x.retAttempt < MAX_RETRIES
        THEN [x EXCEPT !.pc = "retSleep", !.retSleeps = Append(@, RetryDelay(x.retAttempt))]
        ELSE Return([x EXCEPT !.erroredOut = TRUE])

\* catch (err) of the return leg
RetCatch(r, e) ==
    LET x == [r EXCEPT !.err = e, !.stopRead = "unread"]
    IN  IF isTransientError(e) /\ x.retAttempt < MAX_RETRIES
        THEN [x EXCEPT !.pc = "retSleep", !.retSleeps = Append(@, RetryDelay(x.retAttempt))]
        ELSE Return(x)

\* return leg: sleep over: continue -> attempt++ -> for-header
RetWake(r) == RetForTop([r EXCEPT !.retAttempt = @ + 1, !.stopRead = "unread"])

\* ------------------------------------------- the receipt strategies
\* The waitForReceipt calls made on one strategy (three concurrent Testers),
\* each for its own transaction.
Calls == {1, 2, 3}

\* Faulty variant of ChooseStrategy: a configured wsUrl is looked at first.
ChooseStrategyUrlFirst(immediate, url) ==
    IF url # "undefined" THEN "connecting"
    ELSE IF immediate THEN "immediate"
    ELSE "polling"

\* createReceiptStrategy up to its try: if (immediateReceipt) return new
\* ImmediateReceiptStrategy(); if (!wsUrl) return new PollingReceiptStrategy()
ChooseStrategy(immediate, url) ==
    IF immediate THEN "immediate"
    ELSE IF url = "undefined" THEN "polling"
    ELSE "connecting"

\* One waitForReceipt call: where it stands and how often it registered.
\* stale: the read in flight was answered (with no receipt) before the chain
\* executed the transaction.  History: missed, a "block" event was delivered
\* after the chain executed the transaction while the call, not yet ended,
\* was awaiting a read.
InitCall == [pc |-> "idle", iter |-> 0, stale |-> FALSE, missed |-> FALSE]
\* The resolve function of the promise a call awaits in its iter-th wait.
Callback(c, k) == [call |-> c, iter |-> k]
\* Ended calls: returned a receipt, threw "reverted on-chain", threw
\* "connection closed", or rejected with the error of a receipt read.
Ended == {"returned", "reverted", "closed", "failed"}
Reading == {"first", "read", "last"}

\* The calls a wake() of every callback in ws resumes: those awaiting a
\* promise whose resolve function is in ws.
Registered(ws, cs) ==
    {c \in Calls : cs[c].pc = "blocked" /\ Callback(c, cs[c].iter) \in ws}

\* Faulty variant of Fanout: only the first registered waiter is woken.
FanoutFirstOnly(ws, cs) ==
    [c \in Calls |->
        IF c \in Registered(ws, cs) /\ \A d \in Registered(ws, cs) : c <= d
        THEN [cs[c] EXCEPT !.pc = "read"]
        ELSE cs[c]]

\* for (const wake of this.waiters) wake(): every resumed call goes on to
\* its receipt read, await provider.getTransactionReceipt(tx.hash).
Fanout(ws, cs) ==
    [c \in Calls |->
        IF c \in Registered(ws, cs) THEN [cs[c] EXCEPT !.pc = "read"] ELSE cs[c]]

\* if (receipt) { if (receipt.status === 0) throw ...; return receipt }
Settle(rc) == IF rc = "ok" THEN "returned" ELSE "reverted"

\* ------------------------------------------------------------------- state
VARIABLES
    testers,            \* pair index -> locals of its runTester call
    ledger,             \* pair index -> the chain's view of the pair's accounts
    stopped,            \* stopSignal.stopped
    testEndTime,        \* runTest's testEndTime (0 until a callback writes it)
    startTime,          \* runTest's startTime
    durationMs,         \* runTest's durationMs
    now,                \* Date.now()
    timer,              \* the deadline timer: "armed", "fired" or "cleared"
    runPc,              \* runTest: "running" (awaiting the Testers), "done" or "aborted"
    actualDurationMs,   \* the duration handed to computeStats
    immediateReceipt,   \* runTester's immediateReceipt argument
    rpcUrl,             \* runTester's rpcUrl argument: "url" or "undefined"
    stopInstant,        \* history: Date.now() when stopped turned true
    wsUrl,              \* createReceiptStrategy's wsUrl argument: "url" or "undefined"
    strategy,           \* createReceiptStrategy: "call", "connecting", or what it returned
    waited,             \* ms the connection race of createReceiptStrategy is running (else 0)
    waiters,            \* WsBlockReceiptStrategy.waiters (the registered resolve callbacks)
    destroyed,          \* WsBlockReceiptStrategy.destroyed
    calls,              \* the waitForReceipt calls made on the strategy
    receipt,            \* per call: what the chain holds for its transaction
    blocks,             \* "block" events delivered so far
    conn,               \* history: what settled the connection race
    statsPc,            \* the stats functions: "idle", "stats", "percentile" or "done"
    results,            \* computeStats's results argument
    summary,            \* what computeStats returned
    percentileCall,     \* one call of percentile: its arguments and its value
    pmapCall,           \* one call of pMap: its arguments, locals and workers
    preflight,          \* runTest's pre-flight check: balances read, problems, report
    pairing,            \* pairWallets: its argument, its result, the accounts each Tester sends from
    net,                \* the channels to the endpoint and who used them
    curveCall,          \* one call of generateCurve: its argument, locals and result
    poll,               \* one call of PollingReceiptStrategy.waitForReceipt
    estimate,           \* a Tester's expectedConfirmMs and what it was computed from
    tickCall,           \* a curve object: its waypoints, currentTarget and the ticks made
    sweep               \* one call of sweepFunds

\* The state of the receipt strategy.
wsVars == <<wsUrl, strategy, waited, waiters, destroyed, calls, receipt, blocks, conn>>

\* The state of test/stats.
statsVars == <<statsPc, results, summary, percentileCall>>
\* The state of the components that are neither runTest nor a strategy.
\* Wallet pairing, the channels and the traffic curve.
lateVars == <<poll, estimate, tickCall, sweep>>
auxVars == <<pairing, net, curveCall, lateVars>>
otherVars == <<statsVars, pmapCall, preflight, auxVars>>

vars == <<testers, ledger, stopped, testEndTime, startTime, durationMs, now,
          timer, runPc, actualDurationMs, immediateReceipt, rpcUrl, stopInstant,
          wsUrl, strategy, waited, waiters, destroyed, calls, receipt, blocks, conn,
          otherVars>>
\* Everything but the Testers and the ledger.
runVars == <<stopped, testEndTime, startTime, durationMs, now, timer, runPc,
             actualDurationMs, immediateReceipt, rpcUrl, stopInstant, wsVars, otherVars>>

\* Nonces the two accounts of a pair can have on the ledger before the run.
InitNonces == {[A |-> 0, B |-> 0], [A |-> 2, B |-> 1]}

\* test/stats is not in use.
NoSummary == [totalTransactions |-> -1]
NoPercentile == [sorted |-> <<>>, p |-> -1, value |-> -1]

StatsIdle ==
    /\ statsPc = "idle"
    /\ results = <<>>
    /\ summary = NoSummary
    /\ percentileCall = NoPercentile

\* utils/concurrency is not in use.
NoPMap == [pc |-> "idle", items |-> <<>>, limit |-> 0, nextIndex |-> 0, results |-> <<>>,
           workers |-> <<>>, invoked |-> <<>>, settled |-> {},
           error |-> -1, startedAtFailure |-> -1]

\* runTest's pre-flight check has not begun.
NoPreflight == [balances |-> <<>>, problems |-> <<>>, reported |-> FALSE, report |-> <<>>]

\* wallet/derive, the channels and the traffic curve are not in use.
NoPairing == [pc |-> "idle", wallets |-> <<>>, pairs |-> <<>>, senders |-> <<>>]
NoNet == [pc |-> "idle"]
NoCurve == [pc |-> "idle", durationMs |-> 0, waypoints |-> <<>>, currentTime |-> 0]
NoPoll == [pc |-> "idle"]
NoEstimate == [pc |-> "idle"]
NoTick == [pc |-> "idle", seen |-> {}]
NoSweep == [pc |-> "idle"]
LateIdle == poll = NoPoll /\ estimate = NoEstimate /\ tickCall = NoTick /\ sweep = NoSweep
AuxIdle == pairing = NoPairing /\ net = NoNet /\ curveCall = NoCurve /\ LateIdle

OtherIdle == StatsIdle /\ pmapCall = NoPMap /\ preflight = NoPreflight /\ AuxIdle

\* A strategy on which nothing happened yet.
StrategyFresh ==
    /\ waited = 0
    /\ conn = "-"
    /\ waiters = {}
    /\ destroyed = FALSE
    /\ calls = [c \in Calls |-> InitCall]
    /\ receipt = [c \in Calls |-> "none"]
    /\ blocks = 0

\* runTest after it armed the timer, installed the SIGINT handler, took
\* startTime and called runTester for every pair (each suspended at its
\* first await).
Init ==
    /\ testers = [t \in Pairs |-> InitTester]
    /\ \E n \in InitNonces :
         ledger = [t \in Pairs |-> [nonce |-> n, unitOn |-> "A", pool |-> {}, receipts |-> {}]]
    /\ stopped = FALSE
    /\ testEndTime = 0
    /\ now = MsPerSec
    /\ startTime = now
    /\ \E durationSec \in 1..MaxDurationSec : durationMs = durationSec * MsPerSec
    /\ timer = "armed"
    /\ runPc = "running"
    /\ actualDurationMs = 0
    /\ immediateReceipt \in BOOLEAN
    /\ rpcUrl \in (IF immediateReceipt THEN {"url", "undefined"} ELSE {"undefined"})
    /\ stopInstant = 0
    /\ wsUrl = "undefined"
    /\ strategy = ChooseStrategy(immediateReceipt, wsUrl)
    /\ StrategyFresh
    /\ OtherIdle

\* provider.getTransactionCount(address, "pending")
getTransactionCount(l, a) == l.nonce[a] + Cardinality({tx \in l.pool : tx.from = a})

\* The model lets a Tester begin another transfer only below MaxTransfers.
MayContinue(r) == stopped \/ Len(r.transactions) < MaxTransfers
MayAppend(r) == stopped \/ Len(r.transactions) + 1 < MaxTransfers

\* ----------------------------------------------------- runTester's steps
\* The four start-up reads resolve; the main loop begins.
Start(t) ==
    /\ testers[t].pc = "start"
    /\ LET a == getTransactionCount(ledger[t], "A")
           b == getTransactionCount(ledger[t], "B")
           r == [testers[t] EXCEPT !.initNonceA = a, !.initNonceB = b,
                                   !.nonceA = a, !.nonceB = b]
       IN  /\ MayContinue(r)
           /\ testers' = [testers EXCEPT ![t] = WhileTop(r, stopped)]
    /\ UNCHANGED <<ledger, runVars>>

\* One of the four start-up reads is answered with an error: the await of
\* Promise.all([...]) in runTester is outside every try, so the call rejects;
\* the Promise.all over the Testers in runTest rejects with it and runTest
\* throws before clearTimeout, destroy() and computeStats.
StartFailed(t) ==
    /\ testers[t].pc = "start"
    /\ \E e \in RpcErrors : testers' = [testers EXCEPT ![t] = [@ EXCEPT !.pc = "raised", !.err = e]]
    /\ runPc' = IF runPc = "running" THEN "aborted" ELSE runPc
    /\ UNCHANGED <<ledger, stopped, testEndTime, startTime, durationMs, now, timer,
                   actualDurationMs, immediateReceipt, rpcUrl, stopInstant, wsVars, otherVars>>

\* Standard path: the endpoint accepts the transaction into its pool.
SendAccepted(t) ==
    /\ testers[t].pc = "send" /\ ~immediateReceipt
    /\ Acceptable(ledger[t], testers[t].tx)
    /\ ledger' = [ledger EXCEPT ![t] = Accept(@, testers[t].tx)]
    /\ testers' = [testers EXCEPT ![t] = Broadcast(@, stopped)]
    /\ UNCHANGED runVars

\* The endpoint refuses a transaction whose nonce is used up or that it
\* already holds ("nonce too low", "already known").
SendRejected(t) ==
    /\ testers[t].pc = "send" /\ (immediateReceipt => rpcUrl = "url")
    /\ ~Acceptable(ledger[t], testers[t].tx)
    /\ testers' = [testers EXCEPT ![t] = Catch(@, ErrNonce, stopped)]
    /\ UNCHANGED <<ledger, runVars>>

\* The submission fails and nothing reaches the pool.
SendFailed(t) ==
    /\ testers[t].pc = "send" /\ (immediateReceipt => rpcUrl = "url")
    /\ \E e \in RpcErrors : testers' = [testers EXCEPT ![t] = Catch(@, e, stopped)]
    /\ UNCHANGED <<ledger, runVars>>

\* The endpoint takes the transaction but the answer is lost.
SendLost(t) ==
    /\ testers[t].pc = "send" /\ (immediateReceipt => rpcUrl = "url")
    /\ Acceptable(ledger[t], testers[t].tx)
    /\ ledger' = [ledger EXCEPT ![t] = Accept(@, testers[t].tx)]
    /\ \E e \in LostErrors : testers' = [testers EXCEPT ![t] = Catch(@, e, stopped)]
    /\ UNCHANGED runVars

\* Immediate-finality path without an rpcUrl: rpcSendRawTx fails in
\* new URL(rpcUrl) before anything is sent.
ImmediateNoUrl(t) ==
    /\ testers[t].pc = "send" /\ immediateReceipt /\ rpcUrl = "undefined"
    /\ testers' = [testers EXCEPT ![t] = Catch(@, ErrInvalidUrl, stopped)]
    /\ UNCHANGED <<ledger, runVars>>

\* Immediate-finality path: rpcSendRawTx answers with the final receipt.
ImmediateFinal(t) ==
    /\ testers[t].pc = "send" /\ immediateReceipt /\ rpcUrl = "url"
    /\ testers[t].tx.nonce = ledger[t].nonce[testers[t].tx.from]
    /\ testers[t].tx \notin ledger[t].pool
    /\ \E ok \in BOOLEAN :
         LET l == Execute(ledger[t], testers[t].tx, ok)
         IN  /\ ledger' = [ledger EXCEPT ![t] = l]
             /\ IF ReceiptOf(l, testers[t].tx).status = 0
                THEN testers' = [testers EXCEPT ![t] = Catch(@, ErrReverted, stopped)]
                ELSE /\ MayAppend(testers[t])
                     /\ testers' = [testers EXCEPT ![t] = Succeed(@, stopped)]
    /\ UNCHANGED runVars

\* Immediate-finality path against an endpoint that answers with the bare
\* hash (typeof raw === "string"): no status to inspect, the record is kept.
ImmediateHash(t) ==
    /\ testers[t].pc = "send" /\ immediateReceipt /\ rpcUrl = "url"
    /\ Acceptable(ledger[t], testers[t].tx)
    /\ MayAppend(testers[t])
    /\ ledger' = [ledger EXCEPT ![t] = Accept(@, testers[t].tx)]
    /\ testers' = [testers EXCEPT ![t] = Succeed(@, stopped)]
    /\ UNCHANGED runVars

\* The ledger executes a pending transaction whose nonce is next.
Mine(t) ==
    /\ \E tx \in ledger[t].pool, ok \in BOOLEAN :
         /\ tx.nonce = ledger[t].nonce[tx.from]
         /\ ledger' = [ledger EXCEPT ![t] = Execute(@, tx, ok)]
    /\ UNCHANGED <<testers, runVars>>

\* waitForReceipt finds the receipt: status 0 throws, otherwise it returns.
Confirmed(t) ==
    /\ testers[t].pc = "wait"
    /\ HasReceipt(ledger[t], testers[t].tx)
    /\ IF ReceiptOf(ledger[t], testers[t].tx).status = 0
       THEN testers' = [testers EXCEPT ![t] = Catch(@, ErrReverted, stopped)]
       ELSE /\ MayAppend(testers[t])
            /\ testers' = [testers EXCEPT ![t] = Succeed(@, stopped)]
    /\ UNCHANGED <<ledger, runVars>>

\* A receipt read of waitForReceipt fails.
ReceiptFailed(t) ==
    /\ testers[t].pc = "wait"
    /\ \E e \in RpcErrors : testers' = [testers EXCEPT ![t] = Catch(@, e, stopped)]
    /\ UNCHANGED <<ledger, runVars>>

\* The backoff sleep of the main loop is over.
Woken(t) ==
    /\ testers[t].pc = "sleep"
    /\ testers' = [testers EXCEPT ![t] = Wake(@, stopped)]
    /\ UNCHANGED <<ledger, runVars>>

\* ------------------------------------------------- the return leg's steps
RetSendAccepted(t) ==
    /\ testers[t].pc = "retSend"
    /\ Acceptable(ledger[t], testers[t].tx)
    /\ ledger' = [ledger EXCEPT ![t] = Accept(@, testers[t].tx)]
    /\ testers' = [testers EXCEPT ![t] = RetBroadcast(@)]
    /\ UNCHANGED runVars

RetSendRejected(t) ==
    /\ testers[t].pc = "retSend"
    /\ ~Acceptable(ledger[t], testers[t].tx)
    /\ testers' = [testers EXCEPT ![t] = RetCatch(@, ErrNonce)]
    /\ UNCHANGED <<ledger, runVars>>

RetSendFailed(t) ==
    /\ testers[t].pc = "retSend"
    /\ \E e \in RpcErrors : testers' = [testers EXCEPT ![t] = RetCatch(@, e)]
    /\ UNCHANGED <<ledger, runVars>>

RetSendLost(t) ==
    /\ testers[t].pc = "retSend"
    /\ Acceptable(ledger[t], testers[t].tx)
    /\ ledger' = [ledger EXCEPT ![t] = Accept(@, testers[t].tx)]
    /\ \E e \in LostErrors : testers' = [testers EXCEPT ![t] = RetCatch(@, e)]
    /\ UNCHANGED runVars

RetConfirmed(t) ==
    /\ testers[t].pc = "retWait"
    /\ HasReceipt(ledger[t], testers[t].tx)
    /\ testers' = [testers EXCEPT ![t] =
                     IF ReceiptOf(ledger[t], testers[t].tx).status = 0
                     THEN RetCatch(@, ErrReverted)
                     ELSE RetSucceed(@)]
    /\ UNCHANGED <<ledger, runVars>>

RetReceiptFailed(t) ==
    /\ testers[t].pc = "retWait"
    /\ \E e \in RpcErrors : testers' = [testers EXCEPT ![t] = RetCatch(@, e)]
    /\ UNCHANGED <<ledger, runVars>>

RetWoken(t) ==
    /\ testers[t].pc = "retSleep"
    /\ testers' = [testers EXCEPT ![t] = RetWake(@)]
    /\ UNCHANGED <<ledger, runVars>>

\* ---------------------------------------------------------------- runTest
AllReturned == \A t \in Pairs : testers[t].pc = "done"

\* Faulty variant of sigintHandler: a second SIGINT clears the signal again.
sigintHandlerToggles ==
    /\ runPc = "running" /\ ~AllReturned
    /\ stopped' = ~stopped
    /\ testEndTime' = now
    /\ stopInstant' = now
    /\ UNCHANGED <<testers, ledger, startTime, durationMs, now, timer, runPc,
                   actualDurationMs, immediateReceipt, rpcUrl, wsVars, otherVars>>

\* sigintHandler: if (!stopSignal.stopped) { stopped = true; testEndTime = now }
sigintHandler ==
    /\ runPc = "running" /\ ~AllReturned
    /\ ~stopped
    /\ stopped' = TRUE
    /\ testEndTime' = now
    /\ stopInstant' = now
    /\ UNCHANGED <<testers, ledger, startTime, durationMs, now, timer, runPc,
                   actualDurationMs, immediateReceipt, rpcUrl, wsVars, otherVars>>

\* The setTimeout callback: stopped = true; testEndTime = Date.now()
timerCallback ==
    /\ runPc = "running" /\ ~AllReturned
    /\ timer = "armed"
    /\ now >= startTime + durationMs
    /\ stopped' = TRUE
    /\ testEndTime' = now
    /\ timer' = "fired"
    /\ stopInstant' = IF stopped THEN stopInstant ELSE now
    /\ UNCHANGED <<testers, ledger, startTime, durationMs, now, runPc,
                   actualDurationMs, immediateReceipt, rpcUrl, wsVars, otherVars>>

\* Wall-clock time passes.
Tick ==
    /\ now < MaxTime * MsPerSec
    /\ now' = now + MsPerSec
    /\ UNCHANGED <<testers, ledger, stopped, testEndTime, startTime, durationMs,
                   timer, runPc, actualDurationMs, immediateReceipt, rpcUrl, stopInstant,
                   wsVars, otherVars>>

\* Promise.all resolved: clearTimeout, removeListener,
\* actualDurationMs = testEndTime - startTime, computeStats(...)
Finish ==
    /\ runPc = "running" /\ AllReturned
    /\ timer' = IF timer = "armed" THEN "cleared" ELSE timer
    /\ actualDurationMs' = testEndTime - startTime
    /\ runPc' = "done"
    /\ UNCHANGED <<testers, ledger, stopped, testEndTime, startTime, durationMs,
                   now, immediateReceipt, rpcUrl, stopInstant, wsVars, otherVars>>

TesterStep(t) ==
    \/ Start(t)
    \/ StartFailed(t)
    \/ SendAccepted(t)
    \/ SendRejected(t)
    \/ SendFailed(t)
    \/ SendLost(t)
    \/ ImmediateNoUrl(t)
    \/ ImmediateFinal(t)
    \/ ImmediateHash(t)
    \/ Confirmed(t)
    \/ ReceiptFailed(t)
    \/ Woken(t)
    \/ RetSendAccepted(t)
    \/ RetSendRejected(t)
    \/ RetSendFailed(t)
    \/ RetSendLost(t)
    \/ RetConfirmed(t)
    \/ RetReceiptFailed(t)
    \/ RetWoken(t)

Next ==
    \/ \E t \in Pairs : TesterStep(t)
    \/ \E t \in Pairs : Mine(t)
    \/ sigintHandler
    \/ timerCallback
    \/ Tick
    \/ Finish

Spec == Init /\ [][Next]_vars

\* The scheduling the liveness of a run rests on: every await of a Tester
\* on the endpoint settles (with an answer or an error) and every sleep
\* ends; the ledger executes a pending transaction whose nonce is next;
\* time passes and the armed setTimeout callback runs; runTest continues
\* after its Promise.all resolved.
FairSpec ==
    /\ Spec
    /\ \A t \in Pairs : WF_vars(TesterStep(t)) /\ WF_vars(Mine(t))
    /\ WF_vars(Tick)
    /\ WF_vars(timerCallback)
    /\ WF_vars(Finish)

\* ------------------------------ createReceiptStrategy and the ws strategy
\* runTest is about to call createReceiptStrategy(network.wsUrl, chainId,
\* network.immediateReceipt): no stop signal, timer or Tester exists yet.
StrategyInit ==
    /\ testers = [t \in Pairs |-> InitTester]
    /\ ledger = [t \in Pairs |-> [nonce |-> [A |-> 0, B |-> 0], unitOn |-> "A",
                                   pool |-> {}, receipts |-> {}]]
    /\ stopped = FALSE
    /\ testEndTime = 0
    /\ now = MsPerSec
    /\ startTime = 0
    /\ durationMs = MsPerSec
    /\ timer = "unarmed"
    /\ runPc = "strategy"
    /\ actualDurationMs = 0
    /\ immediateReceipt \in BOOLEAN
    /\ rpcUrl = "undefined"
    /\ stopInstant = 0
    /\ wsUrl \in {"url", "undefined"}
    /\ strategy = "call"
    /\ StrategyFresh
    /\ OtherIdle

\* The state of runTest, its Testers and the ledger.
coreVars == <<testers, ledger, stopped, testEndTime, startTime, durationMs, now,
              timer, runPc, actualDurationMs, immediateReceipt, rpcUrl, stopInstant>>

\* Everything of the strategy's state but calls and waiters.
restVars == <<wsUrl, strategy, waited, destroyed, receipt, blocks, conn>>
outerVars == <<testers, ledger, stopped, testEndTime, startTime, durationMs, now,
               timer, runPc, actualDurationMs, immediateReceipt, rpcUrl, stopInstant,
               otherVars>>

\* createReceiptStrategy runs to its first return or to the await of the
\* connection race.
Create ==
    /\ strategy = "call"
    /\ strategy' = ChooseStrategy(immediateReceipt, wsUrl)
    /\ UNCHANGED <<outerVars, wsUrl, waited, waiters, destroyed, calls, receipt, blocks, conn>>

\* Time passes while the race is undecided; at 5000 ms the setTimeout
\* callback is due.
WsWait ==
    /\ strategy = "connecting" /\ waited < WS_READY_TIMEOUT_MS
    /\ waited' = waited + MsPerSec
    /\ UNCHANGED <<outerVars, wsUrl, strategy, waiters, destroyed, calls, receipt, blocks, conn>>

\* catch (err) { console.warn(...); return new PollingReceiptStrategy() }
WsFallback(reason) ==
    /\ strategy = "connecting"
    /\ strategy' = "polling"
    /\ conn' = reason
    /\ waited' = 0
    /\ UNCHANGED <<outerVars, wsUrl, waiters, destroyed, calls, receipt, blocks>>

\* wsProvider.ready resolves first: return new WsBlockReceiptStrategy(wsProvider),
\* whose constructor subscribes to "block".
WsReady ==
    /\ strategy = "connecting" /\ waited <= WS_READY_TIMEOUT_MS
    /\ strategy' = "ws"
    /\ conn' = "ready"
    /\ waited' = 0
    /\ UNCHANGED <<outerVars, wsUrl, waiters, destroyed, calls, receipt, blocks>>

\* new WebSocketProvider throws or wsProvider.ready rejects.
WsConnectFailed == WsFallback("error")

\* The 5000 ms timer rejects the race first.
WsConnectTimeout == waited >= WS_READY_TIMEOUT_MS /\ WsFallback("timeout")

\* while (!this.destroyed) { await new Promise(resolve => this.waiters.add(resolve))
\* and, once the loop is not entered again, the last read.
LoopTop(c) ==
    IF destroyed
    THEN /\ calls' = [calls EXCEPT ![c].pc = "last", ![c].stale = FALSE]
         /\ UNCHANGED waiters
    ELSE /\ calls' = [calls EXCEPT ![c] = [@ EXCEPT !.pc = "blocked", !.iter = @ + 1,
                                                  !.stale = FALSE]]
         /\ waiters' = waiters \cup {Callback(c, calls[c].iter + 1)}

\* A Tester calls waitForReceipt: the optimistic read is sent.
WsCall(c) ==
    /\ strategy = "ws" /\ calls[c].pc = "idle"
    /\ calls' = [calls EXCEPT ![c].pc = "first"]
    /\ UNCHANGED <<outerVars, restVars, waiters>>

\* What the read in flight of call c finds.
Found(c) == IF calls[c].stale THEN "none" ELSE receipt[c]

\* The answer to the optimistic read or to the read after a wake-up is
\* handled.
WsRead(c) ==
    /\ calls[c].pc \in {"first", "read"}
    /\ IF Found(c) # "none"
       THEN calls' = [calls EXCEPT ![c].pc = Settle(Found(c)), ![c].missed = FALSE]
            /\ UNCHANGED waiters
       ELSE LoopTop(c)
    /\ UNCHANGED <<outerVars, restVars>>

\* The last read, made after destroy(), is answered.
WsLastRead(c) ==
    /\ calls[c].pc = "last"
    /\ calls' = [calls EXCEPT ![c].pc = IF Found(c) # "none" THEN Settle(Found(c))
                                                             ELSE "closed",
                              ![c].stale = FALSE, ![c].missed = FALSE]
    /\ UNCHANGED <<outerVars, restVars, waiters>>

\* A receipt read is answered with an error: waitForReceipt rejects with it.
WsReadFailed(c) ==
    /\ calls[c].pc \in Reading
    /\ calls' = [calls EXCEPT ![c].pc = "failed", ![c].stale = FALSE, ![c].missed = FALSE]
    /\ UNCHANGED <<outerVars, restVars, waiters>>

\* The chain executes the transaction of call c; a read of c that is in
\* flight was answered before that, or is answered after it.
WsMine(c) ==
    /\ strategy = "ws" /\ receipt[c] = "none" /\ calls[c].pc \notin Ended
    /\ \E rc \in {"ok", "reverted"} : receipt' = [receipt EXCEPT ![c] = rc]
    /\ UNCHANGED <<outerVars, wsUrl, strategy, waited, waiters, destroyed, calls, blocks, conn>>

\* The chain executes the transaction of call c after the node answered the
\* receipt read the call is awaiting: that read resolves with no receipt
\* (getTransactionReceipt is a request over the socket, its answer and the
\* resumption of the caller are separate turns of the event loop).
WsMineEarly(c) ==
    /\ strategy = "ws" /\ receipt[c] = "none" /\ calls[c].pc \in Reading
    /\ \E rc \in {"ok", "reverted"} : receipt' = [receipt EXCEPT ![c] = rc]
    /\ calls' = [calls EXCEPT ![c].stale = TRUE]
    /\ UNCHANGED <<outerVars, wsUrl, strategy, waited, waiters, destroyed, blocks, conn>>

\* The "block" listener of the constructor runs; the set is left as it is.
Block ==
    /\ strategy = "ws" /\ ~destroyed /\ blocks < MaxBlocks
    /\ calls' = [c \in Calls |->
                    [Fanout(waiters, calls)[c] EXCEPT
                        !.missed = calls[c].stale /\ calls[c].pc \in {"first", "read"}]]
    /\ blocks' = blocks + 1
    /\ UNCHANGED <<outerVars, wsUrl, strategy, waited, waiters, destroyed, receipt, conn>>

\* Faulty variant of destroy: the set is cleared without waking the waiters.
destroyWithoutWake ==
    /\ strategy = "ws" /\ ~destroyed
    /\ destroyed' = TRUE
    /\ waiters' = {}
    /\ UNCHANGED <<outerVars, wsUrl, strategy, waited, calls, receipt, blocks, conn>>

\* destroy(): destroyed = true; wake every waiter; waiters.clear()
destroy ==
    /\ strategy = "ws" /\ ~destroyed
    /\ destroyed' = TRUE
    /\ calls' = Fanout(waiters, calls)
    /\ waiters' = {}
    /\ UNCHANGED <<outerVars, wsUrl, strategy, waited, receipt, blocks, conn>>

CallStep(c) ==
    \/ WsRead(c)
    \/ WsLastRead(c)
    \/ WsReadFailed(c)

StrategyNext ==
    \/ Create
    \/ WsWait
    \/ WsReady
    \/ WsConnectFailed
    \/ WsConnectTimeout
    \/ \E c \in Calls : WsCall(c)
    \/ \E c \in Calls : CallStep(c)
    \/ \E c \in Calls : WsMine(c)
    \/ Block
    \/ destroy

StrategySpec == StrategyInit /\ [][StrategyNext]_vars

\* Every receipt read of a call is answered (with a receipt, with none, or
\* with an error).
StrategyFairSpec == StrategySpec /\ \A c \in Calls : WF_vars(CallStep(c))

\* The strategy with the timing of a receipt read resolved: the node may
\* answer a read before the chain executes the transaction.
RaceNext ==
    \/ StrategyNext
    \/ \E c \in Calls : WsMineEarly(c)

RaceSpec == StrategyInit /\ [][RaceNext]_vars

\* ------------------------------------------------------------- test/stats
\* No run is going on and no strategy exists (for the components that are
\* called before or after the Testers run); actualDurationMs is left open.
RunIdle ==
    /\ testers = [t \in Pairs |-> InitTester]
    /\ ledger = [t \in Pairs |-> [nonce |-> [A |-> 0, B |-> 0], unitOn |-> "A",
                                   pool |-> {}, receipts |-> {}]]
    /\ stopped = FALSE
    /\ testEndTime = 0
    /\ now = MsPerSec
    /\ startTime = 0
    /\ durationMs = MsPerSec
    /\ timer = "unarmed"
    /\ runPc = "idle"
    /\ immediateReceipt = FALSE
    /\ rpcUrl = "undefined"
    /\ stopInstant = 0
    /\ wsUrl = "undefined"
    /\ strategy = "call"
    /\ StrategyFresh

\* The records a Tester can have pushed: { latencyMs, gasUsed } (txHash and
\* direction are not read by test/stats).
TxRecords ==
    {[latencyMs |-> 300, gasUsed |-> 30001],
     [latencyMs |-> 100, gasUsed |-> 50000]}
SeqsUpTo(S, n) == UNION {[1..k -> S] : k \in 0..n}
TesterResults == [completedCleanly : BOOLEAN, transactions : SeqsUpTo(TxRecords, MaxTxs)]
\* The durations handed to computeStats, in ms.
Durations == {500, 1000, 3000}
\* The arguments of percentile: ascending lists of latencies, and p.
PctLatencies == {100, 200, 300, 400, 500}
SortedLists ==
    {l \in SeqsUpTo(PctLatencies, MaxSorted) : \A i \in 1..(Len(l) - 1) : l[i] <= l[i + 1]}
Percents == {0, 1, 50, 95, 99, 100}

\* A JavaScript number that is a quotient, kept exact: num / den.
Frac(n, d) == [num |-> n, den |-> d]
FracDiv(a, b) == Frac(a.num * b.den, a.den * b.num)
FracEq(a, b) == a.num * b.den = b.num * a.den
Whole(n) == Frac(n, 1)

\* Math.ceil(a / b) for b > 0
Ceil(a, b) == -((-a) \div b)
Max(a, b) == IF a >= b THEN a ELSE b

RECURSIVE Sum(_)
Sum(l) == IF l = <<>> THEN 0 ELSE Head(l) + Sum(Tail(l))

RECURSIVE Concat(_)
Concat(ls) == IF ls = <<>> THEN <<>> ELSE Head(ls) \o Concat(Tail(ls))

\* allLatencies.sort((a, b) => a - b)
InsertAsc(x, l) ==
    LET k == Cardinality({i \in 1..Len(l) : l[i] <= x})
    IN  SubSeq(l, 1, k) \o <<x>> \o SubSeq(l, k + 1, Len(l))

\* Faulty variant of SortAsc: the list is left in the order of arrival.
SortNone(l) == l

RECURSIVE SortAsc(_)
SortAsc(l) ==
    IF l = <<>> THEN <<>> ELSE InsertAsc(l[Len(l)], SortAsc(SubSeq(l, 1, Len(l) - 1)))

\* Faulty variant of percentile: Math.floor instead of Math.ceil.
percentileFloor(sorted, p) ==
    IF Len(sorted) = 0 THEN 0
    ELSE LET idx == ((p * Len(sorted)) \div 100) - 1
         IN  sorted[Max(0, idx) + 1]

\* percentile(sorted, p)
percentile(sorted, p) ==
    IF Len(sorted) = 0 THEN 0
    ELSE LET idx == Ceil(p * Len(sorted), 100) - 1
         IN  sorted[Max(0, idx) + 1]

\* Faulty variant of Throughput: the duration is not converted to seconds.
ThroughputPerMs(total, d) ==
    IF total > 0 THEN FracDiv(Whole(total), Whole(d)) ELSE Whole(0)

\* total > 0 ? total / (durationMs / 1000) : 0
Throughput(total, d) ==
    IF total > 0 THEN FracDiv(Whole(total), FracDiv(Whole(d), Whole(MsPerSec))) ELSE Whole(0)

\* The body of computeStats from the two nested for loops on, over the
\* records txs they visit.
Summarize(txs, d) ==
    LET allLatencies == SortAsc([i \in 1..Len(txs) |-> txs[i].latencyMs])
        totalGas == Sum([i \in 1..Len(txs) |-> txs[i].gasUsed])
        total == Len(allLatencies)
    IN  [totalTransactions |-> total,
         totalDurationMs |-> d,
         transactionsPerSecond |-> Throughput(total, d),
         totalGasUsed |-> totalGas,
         avgGasPerTx |-> IF total > 0 THEN totalGas \div total ELSE 0,
         avgLatencyMs |-> IF total > 0 THEN Frac(Sum(allLatencies), total) ELSE Whole(0),
         minLatencyMs |-> IF total > 0 THEN allLatencies[1] ELSE 0,
         maxLatencyMs |-> IF total > 0 THEN allLatencies[total] ELSE 0,
         p50LatencyMs |-> percentile(allLatencies, 50),
         p95LatencyMs |-> percentile(allLatencies, 95),
         p99LatencyMs |-> percentile(allLatencies, 99)]

TxsOf(rs) == Concat([i \in 1..Len(rs) |-> rs[i].transactions])

\* Faulty variant of computeStats: the results are not filtered.
computeStatsUnfiltered(rs, d) == Summarize(TxsOf(rs), d)

\* computeStats(results, durationMs)
computeStats(rs, d) ==
    LET cleanResults == SelectSeq(rs, LAMBDA r : r.completedCleanly)
    IN  Summarize(TxsOf(cleanResults), d)

\* runTest is about to call computeStats, or computeStats is about to call
\* percentile.
StatsInit ==
    /\ RunIdle
    /\ pmapCall = NoPMap
    /\ preflight = NoPreflight
    /\ AuxIdle
    /\ statsPc \in {"stats", "percentile"}
    /\ summary = NoSummary
    /\ IF statsPc = "stats"
       THEN /\ results \in SeqsUpTo(TesterResults, MaxResults)
            /\ actualDurationMs \in Durations
            /\ percentileCall = NoPercentile
       ELSE /\ results = <<>>
            /\ actualDurationMs = 0
            /\ percentileCall \in [sorted : SortedLists, p : Percents, value : {-1}]

ComputeStats ==
    /\ statsPc = "stats"
    /\ summary' = computeStats(results, actualDurationMs)
    /\ statsPc' = "done"
    /\ UNCHANGED <<coreVars, wsVars, results, percentileCall, pmapCall, preflight, auxVars>>

Percentile ==
    /\ statsPc = "percentile"
    /\ percentileCall' = [percentileCall EXCEPT
                            !.value = percentile(percentileCall.sorted, percentileCall.p)]
    /\ statsPc' = "done"
    /\ UNCHANGED <<coreVars, wsVars, results, summary, pmapCall, preflight, auxVars>>

StatsNext ==
    \/ ComputeStats
    \/ Percentile

StatsSpec == StatsInit /\ [][StatsNext]_vars

\* ------------------------------------------------------ utils/concurrency
\* One pMap(items, fn, concurrency) call as a record: pc ("call", "running",
\* "returned", "rejected"), the arguments, the locals nextIndex and results
\* (indices from 0, kept at position index + 1), and the workers, each
\* awaiting fn for index i, done, or failed.  History: how often fn was
\* invoked for each index, and the indices whose fn call has settled.
Hole == <<>>
Min(a, b) == IF a <= b THEN a ELSE b
\* What fn(item, index) resolves to.
FnValue(x, i) == [item |-> x, index |-> i]
Items == {"x", "y"}

\* Faulty variant of WorkerLoop: nextIndex is advanced only when the worker
\* comes back from its await (const i = nextIndex; await ...; nextIndex++).
WorkerLoopLateIncrement(m, w) ==
    LET m1 == IF m.workers[w].pc = "await" THEN [m EXCEPT !.nextIndex = @ + 1] ELSE m
    IN  IF m1.nextIndex < Len(m1.items)
        THEN [m1 EXCEPT !.workers[w] = [pc |-> "await", i |-> m1.nextIndex],
                        !.invoked[m1.nextIndex + 1] = @ + 1]
        ELSE [m1 EXCEPT !.workers[w].pc = "done"]

\* while (nextIndex < items.length) { const i = nextIndex++; ... await fn(items[i], i)
WorkerLoop(m, w) ==
    IF m.nextIndex < Len(m.items)
    THEN [m EXCEPT !.workers[w] = [pc |-> "await", i |-> m.nextIndex],
                   !.nextIndex = @ + 1,
                   !.invoked[m.nextIndex + 1] = @ + 1]
    ELSE [m EXCEPT !.workers[w].pc = "done"]

\* Array.from({ length: k }, () => worker()): the workers start one after
\* the other, each running to its first await.
RECURSIVE SpawnWorkers(_, _)
SpawnWorkers(m, k) == IF k = 0 THEN m ELSE WorkerLoop(SpawnWorkers(m, k - 1), k)

\* await Promise.all(workers); return results
Join(m) ==
    IF m.pc = "running" /\ \A w \in 1..Len(m.workers) : m.workers[w].pc = "done"
    THEN [m EXCEPT !.pc = "returned"]
    ELSE m

\* pMap up to its await.
pMap(items, limit) ==
    LET k == Min(limit, Len(items))
    IN  Join(SpawnWorkers([pc |-> "running", items |-> items, limit |-> limit,
                           nextIndex |-> 0,
                           results |-> [j \in 1..Len(items) |-> Hole],
                           workers |-> [w \in 1..k |-> [pc |-> "new", i |-> -1]],
                           invoked |-> [j \in 1..Len(items) |-> 0],
                           settled |-> {},
                           error |-> -1, startedAtFailure |-> -1], k))

\* Faulty variant of FnResolved: the value is put into the first free slot
\* (results.push(...)) instead of slot i.
FnResolvedPush(m, w, v) ==
    LET free == CHOOSE j \in 1..Len(m.results) :
                    m.results[j] = Hole /\ \A h \in 1..(j - 1) : m.results[h] # Hole
    IN  Join(WorkerLoop([m EXCEPT !.results[free] = v,
                                  !.settled = @ \cup {m.workers[w].i}], w))

\* fn resolved for worker w: results[i] = v, and round the loop.
FnResolved(m, w, v) ==
    Join(WorkerLoop([m EXCEPT !.results[m.workers[w].i + 1] = v,
                              !.settled = @ \cup {m.workers[w].i}], w))

\* Faulty variant of FnRejected: the failure stops the other workers at
\* their next turn of the loop (the counter is moved to the end).
FnRejectedCancels(m, w) ==
    [m EXCEPT !.workers[w].pc = "failed",
              !.settled = @ \cup {m.workers[w].i},
              !.nextIndex = Len(m.items),
              !.pc = IF @ = "running" THEN "rejected" ELSE @,
              !.error = IF m.pc = "running" THEN m.workers[w].i ELSE @,
              !.startedAtFailure = IF m.pc = "running" THEN m.nextIndex ELSE @]

\* fn rejected for worker w: the worker rejects, and with it Promise.all and
\* pMap, unless pMap has rejected already.  error is the rejection pMap
\* fails with (named by the index of the item whose call failed).  History:
\* startedAtFailure, how many calls of fn had started when pMap failed.
FnRejected(m, w) ==
    [m EXCEPT !.workers[w].pc = "failed",
              !.settled = @ \cup {m.workers[w].i},
              !.pc = IF @ = "running" THEN "rejected" ELSE @,
              !.error = IF m.pc = "running" THEN m.workers[w].i ELSE @,
              !.startedAtFailure = IF m.pc = "running" THEN m.nextIndex ELSE @]

Awaiting(m) == {w \in 1..Len(m.workers) : m.workers[w].pc = "await"}

PMapInit ==
    /\ RunIdle
    /\ actualDurationMs = 0
    /\ StatsIdle
    /\ preflight = NoPreflight
    /\ AuxIdle
    /\ \E items \in SeqsUpTo(Items, MaxItems), limit \in 1..MaxLimit :
         pmapCall = [NoPMap EXCEPT !.pc = "call", !.items = items, !.limit = limit]

CallPMap ==
    /\ pmapCall.pc = "call"
    /\ pmapCall' = pMap(pmapCall.items, pmapCall.limit)
    /\ UNCHANGED <<coreVars, wsVars, statsVars, preflight, auxVars>>

FnResolves(w) ==
    /\ w \in Awaiting(pmapCall)
    /\ LET i == pmapCall.workers[w].i
       IN  pmapCall' = FnResolved(pmapCall, w, FnValue(pmapCall.items[i + 1], i))
    /\ UNCHANGED <<coreVars, wsVars, statsVars, preflight, auxVars>>

FnRejects(w) ==
    /\ w \in Awaiting(pmapCall)
    /\ pmapCall' = FnRejected(pmapCall, w)
    /\ UNCHANGED <<coreVars, wsVars, statsVars, preflight, auxVars>>

PMapNext ==
    \/ CallPMap
    \/ \E w \in 1..MaxLimit : FnResolves(w)
    \/ \E w \in 1..MaxLimit : FnRejects(w)

PMapSpec == PMapInit /\ [][PMapNext]_vars

\* ------------------------------------------------- runTest: pre-flight
\* What the chain holds for one pair: the sender's USDC and ETH and the
\* receiver's ETH.
UsdcBalances == {0, USDC_CENT - 1, USDC_CENT}
EthBalances == {0, 1}
PairBalances == [senderUsdc : UsdcBalances, senderEth : EthBalances, receiverEth : EthBalances]
Undefined == <<"undefined">>

Problem(index, account, asset) == [index |-> index, account |-> account, asset |-> asset]

\* The problems the callback pushes for one pair, in its order.
ProblemsOf(index, b) ==
    (IF b.senderUsdc < USDC_CENT THEN <<Problem(index, "sender", "USDC")>> ELSE <<>>)
    \o (IF b.senderEth = 0 THEN <<Problem(index, "sender", "ETH")>> ELSE <<>>)
    \o (IF b.receiverEth = 0 THEN <<Problem(index, "receiver", "ETH")>> ELSE <<>>)

\* runTest was called with 0..MaxPairs pairs and is at its confirm prompt.
PreflightInit ==
    /\ testers = [t \in Pairs |-> InitTester]
    /\ ledger = [t \in Pairs |-> [nonce |-> [A |-> 0, B |-> 0], unitOn |-> "A",
                                   pool |-> {}, receipts |-> {}]]
    /\ stopped = FALSE
    /\ testEndTime = 0
    /\ now = MsPerSec
    /\ startTime = 0
    /\ durationMs = MsPerSec
    /\ timer = "unarmed"
    /\ runPc = "confirm"
    /\ actualDurationMs = 0
    /\ immediateReceipt \in BOOLEAN
    /\ rpcUrl = "undefined"
    /\ stopInstant = 0
    /\ wsUrl = "undefined"
    /\ strategy = "call"
    /\ StrategyFresh
    /\ StatsIdle
    /\ pmapCall = NoPMap
    /\ AuxIdle
    /\ \E bs \in SeqsUpTo(PairBalances, MaxPairs) :
         preflight = [NoPreflight EXCEPT !.balances = bs]

preflightVars == <<testers, ledger, stopped, testEndTime, startTime, durationMs, now,
                   timer, actualDurationMs, immediateReceipt, rpcUrl, stopInstant,
                   wsVars, statsVars, auxVars>>

\* Faulty variant of AfterPMap: the problems are logged and runTest goes on.
AfterPMapWarnOnly(m, problems) ==
    /\ runPc' = IF runPc # "preflight" THEN runPc
                ELSE IF m.pc = "rejected" THEN "threw"
                ELSE IF m.pc = "returned" THEN "strategy"
                ELSE runPc
    /\ preflight' = [preflight EXCEPT
          !.problems = problems,
          !.reported = @ \/ (runPc = "preflight" /\ m.pc = "returned" /\ problems # <<>>),
          !.report = IF runPc = "preflight" /\ m.pc = "returned" THEN problems ELSE @]

\* runTest after await pMap(...): the rejection of pMap is runTest's own;
\* problems are reported and runTest throws; otherwise it goes on to
\* createReceiptStrategy.
AfterPMap(m, problems) ==
    /\ runPc' = IF runPc # "preflight" THEN runPc
                ELSE IF m.pc = "rejected" THEN "threw"
                ELSE IF m.pc = "returned"
                     THEN (IF Len(problems) > 0 THEN "threw" ELSE "strategy")
                ELSE runPc
    /\ preflight' = [preflight EXCEPT
          !.problems = problems,
          !.reported = @ \/ (runPc = "preflight" /\ m.pc = "returned" /\ problems # <<>>),
          !.report = IF runPc = "preflight" /\ m.pc = "returned" THEN problems ELSE @]

\* The user declines: runTest returns.
Declined ==
    /\ runPc = "confirm"
    /\ runPc' = "cancelled"
    /\ UNCHANGED <<preflightVars, pmapCall, preflight>>

\* The user confirms: pMap(pairs, ..., 10) starts one balance check for
\* every pair up to the concurrency.
StartPreflight ==
    /\ runPc = "confirm"
    /\ LET m == pMap([j \in 1..Len(preflight.balances) |-> j - 1], PREFLIGHT_CONCURRENCY)
       IN  /\ pmapCall' = m
           /\ runPc' = IF m.pc = "returned" THEN "strategy" ELSE "preflight"
    /\ UNCHANGED <<preflightVars, preflight>>

\* The three balance reads of worker w's pair are answered: the callback
\* pushes that pair's problems and resolves.
CheckResolves(w) ==
    /\ runPc \in {"preflight", "threw"}
    /\ w \in Awaiting(pmapCall)
    /\ LET i == pmapCall.workers[w].i
           m == FnResolved(pmapCall, w, Undefined)
       IN  /\ pmapCall' = m
           /\ AfterPMap(m, preflight.problems \o ProblemsOf(i, preflight.balances[i + 1]))
    /\ UNCHANGED preflightVars

\* One of the balance reads of worker w's pair fails.
CheckRejects(w) ==
    /\ runPc \in {"preflight", "threw"}
    /\ w \in Awaiting(pmapCall)
    /\ LET m == FnRejected(pmapCall, w)
       IN  /\ pmapCall' = m
           /\ AfterPMap(m, preflight.problems)
    /\ UNCHANGED preflightVars

\* Pre-flight passed: runTest calls createReceiptStrategy.
CreateStrategy == runPc = "strategy" /\ Create

\* The strategy exists: runTest makes the stop signal, arms the timer,
\* takes startTime and calls runTester for every pair.
StartTesters ==
    /\ runPc = "strategy"
    /\ strategy \in {"immediate", "polling"}
    /\ stopped' = FALSE
    /\ timer' = "armed"
    /\ startTime' = now
    /\ runPc' = "running"
    /\ UNCHANGED <<testers, ledger, testEndTime, durationMs, now, actualDurationMs,
                   immediateReceipt, rpcUrl, stopInstant, wsVars, otherVars>>

PreflightNext ==
    \/ Declined
    \/ StartPreflight
    \/ \E w \in 1..MaxPairs : CheckResolves(w)
    \/ \E w \in 1..MaxPairs : CheckRejects(w)
    \/ CreateStrategy
    \/ StartTesters

PreflightSpec == PreflightInit /\ [][PreflightNext]_vars

\* ---------------------------------------------------------- wallet/derive
\* deriveWallets gives distinct wallets, two for every Tester (cli.ts:71, 89).
Wallets == 1..(2 * MaxPairs + 1)
NoWallet == 0
WalletLists ==
    {ws \in SeqsUpTo(Wallets, 2 * MaxPairs) :
        /\ Len(ws) % 2 = 0
        /\ \A i, j \in 1..Len(ws) : i # j => ws[i] # ws[j]}

\* wallets[i], indices from 0; undefined beyond the end.
WalletAt(ws, i) == IF i < Len(ws) THEN ws[i + 1] ELSE NoWallet

\* Faulty variant of PairLoop: i++ in the place of i += 2.
RECURSIVE PairLoopSliding(_, _, _)
PairLoopSliding(ws, i, pairs) ==
    IF i < Len(ws)
    THEN PairLoopSliding(ws, i + 1,
                         Append(pairs, [index |-> i \div 2, sender |-> WalletAt(ws, i),
                                        receiver |-> WalletAt(ws, i + 1)]))
    ELSE pairs

\* for (let i = 0; i < wallets.length; i += 2) pairs.push({ index: i / 2, ... })
RECURSIVE PairLoop(_, _, _)
PairLoop(ws, i, pairs) ==
    IF i < Len(ws)
    THEN PairLoop(ws, i + 2,
                  Append(pairs, [index |-> i \div 2, sender |-> WalletAt(ws, i),
                                 receiver |-> WalletAt(ws, i + 1)]))
    ELSE pairs

pairWallets(ws) == PairLoop(ws, 0, <<>>)

PairingInit ==
    /\ RunIdle
    /\ actualDurationMs = 0
    /\ StatsIdle
    /\ pmapCall = NoPMap
    /\ preflight = NoPreflight
    /\ net = NoNet
    /\ curveCall = NoCurve
    /\ LateIdle
    /\ \E ws \in WalletLists : pairing = [NoPairing EXCEPT !.pc = "call", !.wallets = ws]

\* cli.ts: const pairs = pairWallets(wallets)
PairWallets ==
    /\ pairing.pc = "call"
    /\ pairing' = [pairing EXCEPT !.pc = "paired", !.pairs = pairWallets(pairing.wallets)]
    /\ UNCHANGED <<coreVars, wsVars, statsVars, pmapCall, preflight, net, curveCall, lateVars>>

\* runTest: pairs.map(pair => runTester(pair, ...)); a Tester signs its
\* A->B transfers with pair.sender and its B->A transfers with pair.receiver.
RunTesters ==
    /\ pairing.pc = "paired"
    /\ pairing' = [pairing EXCEPT
          !.pc = "running",
          !.senders = [k \in 1..Len(pairing.pairs) |->
                          {pairing.pairs[k].sender, pairing.pairs[k].receiver}]]
    /\ UNCHANGED <<coreVars, wsVars, statsVars, pmapCall, preflight, net, curveCall, lateVars>>

PairingNext == PairWallets \/ RunTesters

PairingSpec == PairingInit /\ [][PairingNext]_vars

\* ------------------------------------------------------------ utils/rpc
\* The channels to the endpoint: the provider runTest was given (id 0), a
\* provider runTest made for Tester t (id t), and the module-level undici
\* pool of utils/rpc.
Provider(id) == [kind |-> "provider", id |-> id]
RpcPool == [kind |-> "pool", id |-> 0]

\* runTest is about to map its pairs to runTester calls; rpcUrl is
\* runTester's optional last parameter.
NetInit ==
    /\ RunIdle
    /\ actualDurationMs = 0
    /\ StatsIdle
    /\ pmapCall = NoPMap
    /\ preflight = NoPreflight
    /\ pairing = NoPairing
    /\ curveCall = NoCurve
    /\ LateIdle
    /\ \E n \in 1..MaxPairs, immediate \in BOOLEAN, url \in {"url", "undefined"} :
         /\ ~immediate => url = "undefined"
         /\ net = [pc |-> "spawn", n |-> n, immediate |-> immediate, rpcUrl |-> url,
                   provider |-> <<>>, phase |-> <<>>, usdcOnA |-> <<>>, count |-> <<>>,
                   pool |-> "null", rpcId |-> 0,
                   \* History: per Tester the channels it read from and
                   \* submitted over, and the Testers that wrote _rpcId.
                   used |-> <<>>, rpcIdWriters |-> {}]

netRest == <<coreVars, wsVars, statsVars, pmapCall, preflight, pairing, curveCall, lateVars>>

\* network.immediateReceipt ? new JsonRpcProvider(...) : provider, for every pair.
NetSpawn ==
    /\ net.pc = "spawn"
    /\ net' = [net EXCEPT
          !.pc = "running",
          !.provider = [t \in 1..net.n |-> IF net.immediate THEN Provider(t) ELSE Provider(0)],
          !.phase = [t \in 1..net.n |-> "start"],
          !.usdcOnA = [t \in 1..net.n |-> TRUE],
          !.count = [t \in 1..net.n |-> 0],
          !.used = [t \in 1..net.n |-> {}]]
    /\ UNCHANGED netRest

\* The start-up reads of runTester go over its provider.
NetStartup(t) ==
    /\ net.pc = "running" /\ t \in 1..net.n /\ net.phase[t] = "start"
    /\ net' = [net EXCEPT !.phase[t] = "loop",
                          !.used[t] = @ \cup {[op |-> "read", ch |-> net.provider[t]]}]
    /\ UNCHANGED netRest

\* Standard path: wallet.sendTransaction and the receipt reads go over the
\* Tester's provider.
NetSubmitStandard(t) ==
    /\ net.pc = "running" /\ t \in 1..net.n /\ net.phase[t] = "loop"
    /\ ~net.immediate /\ net.count[t] < MaxTransfers
    /\ net' = [net EXCEPT !.count[t] = @ + 1,
                          !.usdcOnA[t] = ~@,
                          !.used[t] = @ \cup {[op |-> "submit", ch |-> net.provider[t]]}]
    /\ UNCHANGED netRest

\* Immediate-finality path: rpcSendRawTx makes the pool if there is none
\* and posts over it with id ++_rpcId.
NetSubmitRaw(t) ==
    /\ net.pc = "running" /\ t \in 1..net.n /\ net.phase[t] = "loop"
    /\ net.immediate /\ net.rpcUrl = "url" /\ net.count[t] < MaxTransfers
    /\ net' = [net EXCEPT !.count[t] = @ + 1,
                          !.usdcOnA[t] = ~@,
                          !.pool = "pool",
                          !.rpcId = @ + 1,
                          !.rpcIdWriters = @ \cup {t},
                          !.used[t] = @ \cup {[op |-> "submit", ch |-> RpcPool]}]
    /\ UNCHANGED netRest

\* Immediate-finality path without rpcUrl: new URL(undefined) throws while
\* _pool is null, a fatal error for the Tester; nothing is sent.
NetSubmitNoUrl(t) ==
    /\ net.pc = "running" /\ t \in 1..net.n /\ net.phase[t] = "loop"
    /\ net.immediate /\ net.rpcUrl = "undefined"
    /\ net' = [net EXCEPT !.phase[t] = "end"]
    /\ UNCHANGED netRest

\* The main loop is left; the return leg follows when the cent is on B.
NetLoopEnd(t) ==
    /\ net.pc = "running" /\ t \in 1..net.n /\ net.phase[t] = "loop"
    /\ net' = [net EXCEPT !.phase[t] = IF net.usdcOnA[t] THEN "end" ELSE "return"]
    /\ UNCHANGED netRest

\* Return leg: walletB.sendTransaction over the Tester's provider, in
\* every mode.
NetReturn(t) ==
    /\ net.pc = "running" /\ t \in 1..net.n /\ net.phase[t] = "return"
    /\ net' = [net EXCEPT !.phase[t] = "end",
                          !.used[t] = @ \cup {[op |-> "submit", ch |-> net.provider[t]]}]
    /\ UNCHANGED netRest

NetNext ==
    \/ NetSpawn
    \/ \E t \in 1..MaxPairs :
          \/ NetStartup(t)
          \/ NetSubmitStandard(t)
          \/ NetSubmitRaw(t)
          \/ NetSubmitNoUrl(t)
          \/ NetLoopEnd(t)
          \/ NetReturn(t)

NetSpec == NetInit /\ [][NetNext]_vars

\* ----------------------------------------------------------- traffic curve
\* Times are in ms, targets in millionths (0.1 is 100000).  Math.random()
\* is a draw r / RandomScale with 0 <= r < RandomScale.
RandomScale == 1000
RandomDraws == {0, 500, 999}
CurveDurations == {1, 30000, 250000, 600000}

\* min + Math.random() * (max - min)
randBetween(min, max, r) == min + (r * (max - min)) \div RandomScale

Waypoint(timeMs, target) == [timeMs |-> timeMs, target |-> target]

CurveInit ==
    /\ RunIdle
    /\ actualDurationMs = 0
    /\ StatsIdle
    /\ pmapCall = NoPMap
    /\ preflight = NoPreflight
    /\ pairing = NoPairing
    /\ net = NoNet
    /\ LateIdle
    /\ \E d \in CurveDurations : curveCall = [NoCurve EXCEPT !.pc = "call", !.durationMs = d]

curveRest == <<coreVars, wsVars, statsVars, pmapCall, preflight, pairing, net, lateVars>>

\* waypoints.push({ timeMs: 0, target: randBetween(0.1, 0.5) }); let currentTime = 0
CurveStart ==
    /\ curveCall.pc = "call"
    /\ \E r \in RandomDraws :
         curveCall' = [curveCall EXCEPT
            !.pc = IF 0 < curveCall.durationMs THEN "loop" ELSE "returned",
            !.waypoints = <<Waypoint(0, randBetween(100000, 500000, r))>>,
            !.currentTime = 0]
    /\ UNCHANGED curveRest

\* Faulty variant of CurveSegment: the last waypoint is put at currentTime.
CurveSegmentOvershoot ==
    /\ curveCall.pc = "loop"
    /\ Len(curveCall.waypoints) < MaxWaypoints
    /\ \E rs, rt \in RandomDraws :
         LET ct == curveCall.currentTime + randBetween(30000, 300000, rs)
             target == randBetween(100000, 950000, rt)
         IN  curveCall' = [curveCall EXCEPT
                !.currentTime = ct,
                !.waypoints = Append(@, Waypoint(ct, target)),
                !.pc = IF ct >= curveCall.durationMs THEN "returned" ELSE "loop"]
    /\ UNCHANGED curveRest

\* One round of while (currentTime < durationMs): a segment is drawn; the
\* waypoint is put at durationMs (and the loop left) when the segment
\* reaches the end, at currentTime otherwise.
CurveSegment ==
    /\ curveCall.pc = "loop"
    /\ Len(curveCall.waypoints) < MaxWaypoints
    /\ \E rs, rt \in RandomDraws :
         LET ct == curveCall.currentTime + randBetween(30000, 300000, rs)
             target == randBetween(100000, 950000, rt)
         IN  curveCall' = [curveCall EXCEPT
                !.currentTime = ct,
                !.waypoints = Append(@, Waypoint(IF ct >= curveCall.durationMs
                                                 THEN curveCall.durationMs ELSE ct, target)),
                !.pc = IF ct >= curveCall.durationMs THEN "returned" ELSE "loop"]
    /\ UNCHANGED curveRest

CurveNext == CurveStart \/ CurveSegment

CurveSpec == CurveInit /\ [][CurveNext]_vars

\* ------------------------------------------------ PollingReceiptStrategy
\* Delays and times are counted in twentieths of a millisecond, so that
\* expectedMs * 0.8 and expectedMs / 4 are whole numbers.
DelayScale == 20
MIN_POLL_INTERVAL_MS == 50
MAX_POLL_INTERVAL_MS == 1000
\* The estimates a call is made with, on both sides of every clamp.
Estimates == {0, 40, 62, 63, 199, 200, 250, 4000, 4001, 8000}
\* How late a timer may fire and how long a read may take (a millisecond).
Lateness == {0, DelayScale}
\* What getTransactionReceipt resolves with: null, or a receipt with status
\* 1, 0 or null.
ReadAnswers == {"null", "status1", "status0", "statusNull"}

\* Math.max(expectedMs * 0.8, MIN_POLL_INTERVAL_MS)
initialDelay(expectedMs) ==
    Max((expectedMs * 8 * DelayScale) \div 10, MIN_POLL_INTERVAL_MS * DelayScale)

\* Faulty variant of pollInterval: no lower clamp.
pollIntervalNoFloor(expectedMs) ==
    Min((expectedMs * DelayScale) \div 4, MAX_POLL_INTERVAL_MS * DelayScale)

\* Math.max(Math.min(expectedMs / 4, MAX_POLL_INTERVAL_MS), MIN_POLL_INTERVAL_MS)
pollInterval(expectedMs) ==
    Max(Min((expectedMs * DelayScale) \div 4, MAX_POLL_INTERVAL_MS * DelayScale),
        MIN_POLL_INTERVAL_MS * DelayScale)

\* The components modelled above are idle in the specifications below.
EarlyIdle ==
    /\ RunIdle
    /\ actualDurationMs = 0
    /\ StatsIdle
    /\ pmapCall = NoPMap
    /\ preflight = NoPreflight
    /\ pairing = NoPairing /\ net = NoNet /\ curveCall = NoCurve
earlyVars == <<coreVars, wsVars, statsVars, pmapCall, preflight, pairing, net, curveCall>>

\* waitForReceipt(provider, tx, expectedMs) is about to run.  elapsed is the
\* time since the call; sleeps are the arguments of the sleep calls made;
\* readAt are the times at which the receipt reads were issued; answer is
\* what the last read resolved with.
PollInit ==
    /\ EarlyIdle
    /\ estimate = NoEstimate /\ tickCall = NoTick /\ sweep = NoSweep
    /\ \E e \in Estimates :
         poll = [pc |-> "call", expectedMs |-> e, elapsed |-> 0, sleeps |-> <<>>,
                 readAt |-> <<>>, answer |-> "none"]

pollRest == <<earlyVars, estimate, tickCall, sweep>>

\* const initialDelay = ...; await sleep(initialDelay)
PollCall ==
    /\ poll.pc = "call"
    /\ poll' = [poll EXCEPT !.pc = "sleep",
                            !.sleeps = <<initialDelay(poll.expectedMs)>>]
    /\ UNCHANGED pollRest

\* The timer of the sleep fires, at its time or later, and the call issues
\* provider.getTransactionReceipt(tx.hash).
PollWake ==
    /\ poll.pc = "sleep" /\ Len(poll.readAt) < MaxReads
    /\ \E late \in Lateness :
         LET t == poll.elapsed + poll.sleeps[Len(poll.sleeps)] + late
         IN  poll' = [poll EXCEPT !.pc = "read", !.elapsed = t,
                                  !.readAt = Append(@, t)]
    /\ UNCHANGED pollRest

\* The read resolves: no receipt, sleep(pollInterval) and round the loop; a
\* receipt of status 0, throw; any other receipt, return it.
PollAnswer ==
    /\ poll.pc = "read"
    /\ \E a \in ReadAnswers, took \in Lateness :
         poll' = [poll EXCEPT
            !.elapsed = @ + took,
            !.answer = a,
            !.pc = IF a = "null" THEN "sleep"
                   ELSE IF a = "status0" THEN "threw" ELSE "returned",
            !.sleeps = IF a = "null" THEN Append(@, pollInterval(poll.expectedMs)) ELSE @]
    /\ UNCHANGED pollRest

\* The read rejects (the request failed): so does waitForReceipt.
PollReadFails ==
    /\ poll.pc = "read"
    /\ \E took \in Lateness :
         poll' = [poll EXCEPT !.elapsed = @ + took, !.answer = "error", !.pc = "failed"]
    /\ UNCHANGED pollRest

PollNext == PollCall \/ PollWake \/ PollAnswer \/ PollReadFails

PollSpec == PollInit /\ [][PollNext]_vars

\* ------------------------------------- runTester: the confirmation estimate
\* estimatedBlockTimeMs as runTest passes it, and the confirmation times a
\* Tester can observe (Date.now() - broadcastTime), in milliseconds.
Baselines == {1, 250, 2000}
Observations == {0, 1, 36, 250, 4000}

\* Faulty variant of Ema: the weights the other way round.
EmaSwapped(old, confirmMs) ==
    {(3 * old + 7 * confirmMs + 5) \div 10}

\* Math.round(expectedConfirmMs * 0.7 + confirmMs * 0.3): the values the
\* expression can have.  Math.round takes a tie upwards, but the sum is
\* computed in doubles and can fall just below a tie (1 * 0.7 + 36 * 0.3 is
\* 11.499999999999998), so at a tie either neighbour is possible.
Ema(old, confirmMs) ==
    LET tenfold == 7 * old + 3 * confirmMs
    IN  IF tenfold % 10 = 5
        THEN {tenfold \div 10, tenfold \div 10 + 1}
        ELSE {(tenfold + 5) \div 10}

\* runTester has set expectedConfirmMs = estimatedBlockTimeMs and is at the
\* top of its loop.  History: observed (the confirmation times fed back),
\* last (the latest of them), confirms and failures (attempts so far).
EstimateInit ==
    /\ EarlyIdle
    /\ poll = NoPoll /\ tickCall = NoTick /\ sweep = NoSweep
    /\ \E b \in Baselines, immediate \in BOOLEAN :
         estimate = [pc |-> "loop", immediateReceipt |-> immediate, baseline |-> b,
                     expectedConfirmMs |-> b, observed |-> {}, last |-> -1,
                     confirms |-> 0, failures |-> 0, usdcOnA |-> TRUE]

estimateRest == <<earlyVars, poll, tickCall, sweep>>

\* Standard path: sendTransaction and waitForReceipt succeeded after
\* confirmMs; the estimate is updated and the transfer recorded.
EstConfirmStandard ==
    /\ estimate.pc = "loop" /\ ~estimate.immediateReceipt
    /\ estimate.confirms < MaxConfirms
    /\ \E confirmMs \in Observations :
         \E e \in Ema(estimate.expectedConfirmMs, confirmMs) :
            estimate' = [estimate EXCEPT !.expectedConfirmMs = e,
                                         !.observed = @ \cup {confirmMs},
                                         !.last = confirmMs,
                                         !.confirms = @ + 1,
                                         !.usdcOnA = ~@]
    /\ UNCHANGED estimateRest

\* Immediate-finality path: the raw submission returned the receipt.
EstConfirmImmediate ==
    /\ estimate.pc = "loop" /\ estimate.immediateReceipt
    /\ estimate.confirms < MaxConfirms
    /\ estimate' = [estimate EXCEPT !.confirms = @ + 1, !.usdcOnA = ~@]
    /\ UNCHANGED estimateRest

\* An attempt threw (submission or waitForReceipt) and is retried.
EstAttemptFails ==
    /\ estimate.pc = "loop"
    /\ estimate.failures < MAX_RETRIES
    /\ estimate' = [estimate EXCEPT !.failures = @ + 1]
    /\ UNCHANGED estimateRest

\* The loop ends (stop signal, or an attempt failed for good); the return
\* leg follows if the unit is on wallet B.
EstLoopExit ==
    /\ estimate.pc = "loop"
    /\ estimate' = [estimate EXCEPT !.pc = IF estimate.usdcOnA THEN "done" ELSE "return"]
    /\ UNCHANGED estimateRest

\* Return leg: waitForReceipt(provider, tx, expectedConfirmMs) resolved or
\* threw; nothing is measured.
EstReturnLeg ==
    /\ estimate.pc = "return"
    /\ estimate' = [estimate EXCEPT !.pc = "done"]
    /\ UNCHANGED estimateRest

EstimateNext ==
    \/ EstConfirmStandard
    \/ EstConfirmImmediate
    \/ EstAttemptFails
    \/ EstLoopExit
    \/ EstReturnLeg

EstimateSpec == EstimateInit /\ [][EstimateNext]_vars

\* ------------------------------------------------- traffic curve: tick
\* The durations a ticked curve is generated for, and the elapsed times it
\* is ticked with: before the start, the start, inside a segment, the end
\* of the shortest segment, inside a later segment, past every end.
TickDurations == {0, 1, 250000}
ElapsedTimes == {-1, 0, 15000, 30000, 100000, 300000}
FracLe(a, b) == a.num * b.den <= b.num * a.den
RECURSIVE Gcd(_, _)
Gcd(a, b) == IF b = 0 THEN a ELSE Gcd(b, a % b)
\* The fraction n / d in lowest terms (d > 0, n >= 0).
Lowest(n, d) == Frac(n \div Gcd(n, d), d \div Gcd(n, d))
\* a + t * (b - a) for whole a, b and a fraction t.
Lerp(a, t, b) == Frac(a * t.den + t.num * (b - a), t.den)

\* Faulty variant of tickLoop: interpolates from b.target towards a.target.
RECURSIVE tickLoopSwapped(_, _, _)
tickLoopSwapped(curve, elapsedMs, i) ==
    IF i >= Len(curve.waypoints)
    THEN curve
    ELSE LET a == curve.waypoints[i]
             b == curve.waypoints[i + 1]
         IN  IF elapsedMs >= a.timeMs /\ elapsedMs < b.timeMs
             THEN LET t == Lowest(elapsedMs - a.timeMs, b.timeMs - a.timeMs)
                  IN  [curve EXCEPT !.currentTarget = Lerp(b.target, t, a.target)]
             ELSE tickLoopSwapped(curve, elapsedMs, i + 1)

\* for (let i = 0; i < waypoints.length - 1; i++): the first pair a, b with
\* a.timeMs <= elapsedMs < b.timeMs sets currentTarget to
\* a.target + t * (b.target - a.target), t = (elapsedMs - a.timeMs) /
\* (b.timeMs - a.timeMs), kept as an exact fraction; with no such pair tick
\* returns without a write.
RECURSIVE tickLoop(_, _, _)
tickLoop(curve, elapsedMs, i) ==
    IF i >= Len(curve.waypoints)
    THEN curve
    ELSE LET a == curve.waypoints[i]
             b == curve.waypoints[i + 1]
         IN  IF elapsedMs >= a.timeMs /\ elapsedMs < b.timeMs
             THEN LET t == Lowest(elapsedMs - a.timeMs, b.timeMs - a.timeMs)
                  IN  [curve EXCEPT !.currentTarget = Lerp(a.target, t, b.target)]
             ELSE tickLoop(curve, elapsedMs, i + 1)

\* Faulty variant of tick: no clamp at the start.
tickNoStartClamp(curve, elapsedMs) ==
    LET last == curve.waypoints[Len(curve.waypoints)]
    IN  IF elapsedMs >= last.timeMs
        THEN [curve EXCEPT !.currentTarget = Whole(last.target)]
        ELSE tickLoop(curve, elapsedMs, 1)

\* tick(elapsedMs)
tick(curve, elapsedMs) ==
    LET last == curve.waypoints[Len(curve.waypoints)]
    IN  IF elapsedMs <= 0
        THEN [curve EXCEPT !.currentTarget = Whole(curve.waypoints[1].target)]
        ELSE IF elapsedMs >= last.timeMs
        THEN [curve EXCEPT !.currentTarget = Whole(last.target)]
        ELSE tickLoop(curve, elapsedMs, 1)

TickInit ==
    /\ RunIdle
    /\ actualDurationMs = 0
    /\ StatsIdle
    /\ pmapCall = NoPMap
    /\ preflight = NoPreflight
    /\ pairing = NoPairing /\ net = NoNet
    /\ LateIdle
    /\ \E d \in TickDurations : curveCall = [NoCurve EXCEPT !.pc = "call", !.durationMs = d]

tickRest == <<coreVars, wsVars, statsVars, pmapCall, preflight, pairing, net, curveCall,
              poll, estimate, sweep>>

\* const curve = { waypoints, currentTarget: waypoints[0].target, ... };
\* return curve.  History: ticks (how many were made), last (the argument
\* of the latest), seen (every argument with the target it produced).
MakeCurve ==
    /\ curveCall.pc = "returned" /\ tickCall.pc = "idle"
    /\ tickCall' = [pc |-> "ready", waypoints |-> curveCall.waypoints,
                    currentTarget |-> Whole(curveCall.waypoints[1].target),
                    ticks |-> 0, last |-> 0, seen |-> {}]
    /\ UNCHANGED tickRest

\* curve.tick(elapsedMs)
CurveTick ==
    /\ tickCall.pc = "ready" /\ tickCall.ticks < MaxTicks
    /\ \E elapsedMs \in ElapsedTimes :
         LET c == tick(tickCall, elapsedMs)
         IN  tickCall' = [c EXCEPT !.ticks = @ + 1, !.last = elapsedMs,
                                   !.seen = @ \cup {<<elapsedMs, c.currentTarget>>}]
    /\ UNCHANGED tickRest

TickNext == CurveStart \/ CurveSegment \/ MakeCurve \/ CurveTick

TickSpec == TickInit /\ [][TickNext]_vars

\* ------------------------------------------------------------ sweepFunds
\* Balances in whole units; GasCost is 21000n * gasPrice in the same unit.
GasCost == 2
SweepEth == {0, 1, 3}
SweepUsdc == {0, 5}
\* A sweep transaction: "none" (never started), "preparing" (the call is
\* made, nothing submitted yet), "sent", "confirmed" (tx.wait() resolved),
\* "failed" (the submission or tx.wait() rejected).

\* Faulty variant of UsdcJoined: goes on once every USDC sweep is submitted.
UsdcJoinedOnSubmit(sw) ==
    \A i \in 1..Len(sw.balances) : sw.usdcTx[i] \in {"none", "sent", "confirmed"}

\* await Promise.all(usdcSweeps) resolves: every promise resolved.
UsdcJoined(sw) ==
    \A i \in 1..Len(sw.balances) : sw.usdcTx[i] \in {"none", "confirmed"}

\* sweepFunds is about to read the balances of the derived wallets.
SweepInit ==
    /\ EarlyIdle
    /\ poll = NoPoll /\ estimate = NoEstimate /\ tickCall = NoTick
    /\ \E n \in 1..MaxSweepWallets :
         \E balances \in [1..n -> [eth : SweepEth \ {1}, usdc : SweepUsdc]] :
            sweep = [pc |-> "scan", balances |-> balances, i |-> 1, items |-> <<>>,
                     usdcTx |-> [k \in 1..n |-> "none"],
                     ethTx |-> [k \in 1..n |-> "none"], j |-> 1]

sweepRest == <<earlyVars, poll, estimate, tickCall>>

\* After the loop over the wallets: nothing to sweep, or the plan and the
\* confirmation prompt.
AfterScan(sw) ==
    IF sw.i <= Len(sw.balances) THEN sw
    ELSE [sw EXCEPT !.pc = IF Len(sw.items) = 0 THEN "empty" ELSE "confirm"]

\* Both balance reads of wallet i resolved.
SweepScan ==
    /\ sweep.pc = "scan"
    /\ LET b == sweep.balances[sweep.i]
       IN  sweep' = AfterScan([sweep EXCEPT
                !.items = IF b.eth > 0 \/ b.usdc > 0 THEN Append(@, sweep.i) ELSE @,
                !.i = @ + 1])
    /\ UNCHANGED sweepRest

\* A balance read rejected: sweepFunds rejects.
SweepScanFails ==
    /\ sweep.pc = "scan"
    /\ sweep' = [sweep EXCEPT !.pc = "failed"]
    /\ UNCHANGED sweepRest

\* The prompt is answered.  On yes the USDC loop runs: transfer is called
\* for every item holding USDC; with no such item the ETH loop is next.
SweepConfirm ==
    /\ sweep.pc = "confirm"
    /\ \E ok \in BOOLEAN :
         IF ~ok
         THEN sweep' = [sweep EXCEPT !.pc = "cancelled"]
         ELSE LET started == [k \in 1..Len(sweep.balances) |->
                                IF sweep.balances[k].usdc > 0 THEN "preparing" ELSE "none"]
              IN  sweep' = [sweep EXCEPT
                     !.usdcTx = started,
                     !.pc = IF \E k \in 1..Len(started) : started[k] # "none"
                            THEN "usdcWait" ELSE "eth"]
    /\ UNCHANGED sweepRest

\* A USDC transfer is submitted, or its submission rejects.
UsdcSubmit(k) ==
    /\ sweep.pc # "idle" /\ k \in 1..Len(sweep.balances)
    /\ sweep.usdcTx[k] = "preparing"
    /\ \E to \in {"sent", "failed"} : sweep' = [sweep EXCEPT !.usdcTx[k] = to]
    /\ UNCHANGED sweepRest

\* tx.wait() of a USDC transfer resolves or rejects.
UsdcSettle(k) ==
    /\ sweep.pc # "idle" /\ k \in 1..Len(sweep.balances)
    /\ sweep.usdcTx[k] = "sent"
    /\ \E to \in {"confirmed", "failed"} : sweep' = [sweep EXCEPT !.usdcTx[k] = to]
    /\ UNCHANGED sweepRest

\* await Promise.all(usdcSweeps) resolves; the ETH loop starts.
SweepUsdcJoin ==
    /\ sweep.pc = "usdcWait" /\ UsdcJoined(sweep)
    /\ sweep' = [sweep EXCEPT !.pc = "eth"]
    /\ UNCHANGED sweepRest

\* await Promise.all(usdcSweeps) rejects with the first failure.
SweepUsdcReject ==
    /\ sweep.pc = "usdcWait"
    /\ \E k \in 1..Len(sweep.balances) : sweep.usdcTx[k] = "failed"
    /\ sweep' = [sweep EXCEPT !.pc = "failed"]
    /\ UNCHANGED sweepRest

\* After the ETH loop: wait for the ETH sweeps, if any.
AfterEthLoop(sw) ==
    IF sw.j <= Len(sw.items) THEN sw
    ELSE [sw EXCEPT !.pc = IF \E k \in 1..Len(sw.balances) : sw.ethTx[k] # "none"
                           THEN "ethWait" ELSE "done"]

\* One round of the ETH loop: the balance is read again; a wallet with
\* nothing left is skipped, one whose fee data cannot be read as well; a
\* wallet holding more than the gas cost gets sendTransaction called.
SweepEthRound ==
    /\ sweep.pc = "eth" /\ sweep.j <= Len(sweep.items)
    /\ \E currentBalance \in SweepEth, feeData \in {"ok", "error"} :
         LET k == sweep.items[sweep.j]
             send == currentBalance # 0 /\ feeData = "ok" /\ currentBalance > GasCost
         IN  sweep' = AfterEthLoop([sweep EXCEPT
                !.ethTx[k] = IF send THEN "preparing" ELSE @,
                !.j = @ + 1])
    /\ UNCHANGED sweepRest

\* provider.getBalance in the ETH loop rejects (it is outside the try).
SweepEthReadFails ==
    /\ sweep.pc = "eth" /\ sweep.j <= Len(sweep.items)
    /\ sweep' = [sweep EXCEPT !.pc = "failed"]
    /\ UNCHANGED sweepRest

\* An ETH transfer is submitted, or its submission rejects.
EthSubmit(k) ==
    /\ sweep.pc # "idle" /\ k \in 1..Len(sweep.balances)
    /\ sweep.ethTx[k] = "preparing"
    /\ \E to \in {"sent", "failed"} : sweep' = [sweep EXCEPT !.ethTx[k] = to]
    /\ UNCHANGED sweepRest

\* tx.wait() of an ETH transfer resolves or rejects.
EthSettle(k) ==
    /\ sweep.pc # "idle" /\ k \in 1..Len(sweep.balances)
    /\ sweep.ethTx[k] = "sent"
    /\ \E to \in {"confirmed", "failed"} : sweep' = [sweep EXCEPT !.ethTx[k] = to]
    /\ UNCHANGED sweepRest

\* await Promise.all(ethSweeps) resolves, and sweepFunds returns.
SweepEthJoin ==
    /\ sweep.pc = "ethWait"
    /\ \A k \in 1..Len(sweep.balances) : sweep.ethTx[k] \in {"none", "confirmed"}
    /\ sweep' = [sweep EXCEPT !.pc = "done"]
    /\ UNCHANGED sweepRest

\* await Promise.all(ethSweeps) rejects.
SweepEthReject ==
    /\ sweep.pc = "ethWait"
    /\ \E k \in 1..Len(sweep.balances) : sweep.ethTx[k] = "failed"
    /\ sweep' = [sweep EXCEPT !.pc = "failed"]
    /\ UNCHANGED sweepRest

SweepNext ==
    \/ SweepScan
    \/ SweepScanFails
    \/ SweepConfirm
    \/ \E k \in 1..MaxSweepWallets : UsdcSubmit(k)
    \/ \E k \in 1..MaxSweepWallets : UsdcSettle(k)
    \/ SweepUsdcJoin
    \/ SweepUsdcReject
    \/ SweepEthRound
    \/ SweepEthReadFails
    \/ \E k \in 1..MaxSweepWallets : EthSubmit(k)
    \/ \E k \in 1..MaxSweepWallets : EthSettle(k)
    \/ SweepEthJoin
    \/ SweepEthReject

SweepSpec == SweepInit /\ [][SweepNext]_vars

\* ================================================================ claims
InFlight == {"send", "wait"}
Backoffs == <<500, 1000, 2000>>
FirstBackoffs(n) == SubSeq(Backoffs, 1, n)
Sender(r) == IF r.direction = "A->B" THEN "A" ELSE "B"
NonceOf(r, a) == IF a = "A" THEN r.nonceA ELSE r.nonceB
Count(r, d) == Cardinality({i \in 1..Len(r.transactions) : r.transactions[i].direction = d})

\* C1: a Tester with a submission in flight (awaiting sendTransaction or the
\* confirmation) leaves that attempt only by its success (one record more)
\* or its failure (an error caught); passing from the submission to the
\* confirmation wait it does not read stopSignal.stopped.  Whether and when
\* the stop signal is set changes none of this.
C1_NoCancelMidAttempt ==
    [][\A t \in Pairs :
        (testers[t].pc \in InFlight /\ testers'[t] # testers[t]) =>
            \/ /\ testers[t].pc = "send" /\ testers'[t].pc = "wait"
               /\ testers'[t].tx = testers[t].tx
               /\ testers'[t].stopRead = "unread"
            \/ testers'[t].transactions =
                 Append(testers[t].transactions,
                        [txHash |-> testers[t].tx, direction |-> testers[t].direction])
            \/ /\ testers'[t].err # NoErr \/ testers'[t].exit.err # NoErr
               /\ testers'[t].transactions = testers[t].transactions]_vars

\* C1 witness: the stop signal is set while a submitted transfer awaits its
\* confirmation.
C1_Witness ==
    \E t \in Pairs : stopped /\ testers[t].pc = "wait" /\ testers[t].stopRead = "unread"

\* C2 (as claimed): once the stop signal is set, the stop timestamp keeps
\* the value its first writer gave it.
C2_FirstWriterOnly == [][stopped => testEndTime' = testEndTime]_vars

\* C3 (as claimed): when the stop signal was set during the run, the
\* duration handed to computeStats is the instant it was set minus the
\* start instant.
C3_DurationIsStopInstant ==
    (runPc = "done" /\ stopped) => actualDurationMs = stopInstant - startTime

\* C4: a transfer is recorded by appending exactly one record, after
\* attempt+1 submissions (attempt in 0..MAX_RETRIES) with sleeps of 500,
\* 1000, 2000 ms after the failed ones, each of them transient; and unless
\* the stop signal is set the Tester goes on to its next transfer.
C4_RetryThenSuccess ==
    [][\A t \in Pairs :
        (testers[t].pc \in InFlight /\ testers'[t].transactions # testers[t].transactions) =>
            /\ testers'[t].transactions =
                 Append(testers[t].transactions,
                        [txHash |-> testers[t].tx, direction |-> testers[t].direction])
            /\ testers[t].attempt \in 0..MAX_RETRIES
            /\ testers[t].submissions = testers[t].attempt + 1
            /\ testers[t].sleeps = FirstBackoffs(testers[t].attempt)
            /\ (~stopped => /\ testers'[t].pc = "send"
                            /\ testers'[t].attempt = 0
                            /\ testers'[t].base = Len(testers'[t].transactions))]_vars

\* C4 witness: three transient failures, three sleeps, and the fourth
\* submission is mined with the stop signal still clear.
C4_Witness ==
    \E t \in Pairs :
        /\ ~stopped /\ testers[t].stopRead = "unread"
        /\ testers[t].pc = "wait" /\ testers[t].attempt = MAX_RETRIES
        /\ testers[t].sleeps = Backoffs
        /\ HasReceipt(ledger[t], testers[t].tx)
        /\ ReceiptOf(ledger[t], testers[t].tx).status = 1
        /\ Len(testers[t].transactions) + 1 < MaxTransfers

\* C5: a main loop that ends on a transient error with the stop signal
\* clear has made exactly 4 submissions for the transfer and slept 500,
\* 1000, 2000 ms (not after the last); no record was added, nonces and
\* direction are as when the transfer began, and completedCleanly is false.
C5_RetriesExhausted ==
    \A t \in Pairs :
        LET r == testers[t] IN
        (r.exit.left /\ isTransientError(r.exit.err) /\ ~r.exit.stopSeen) =>
            /\ r.attempt = MAX_RETRIES
            /\ r.submissions = MAX_RETRIES + 1
            /\ r.sleeps = Backoffs
            /\ Len(r.transactions) = r.base /\ r.exit.n = r.base
            /\ NonceOf(r, Sender(r)) = r.nonce
            /\ r.usdcOnA = (r.direction = "A->B")
            /\ r.erroredOut /\ ~r.exit.clean
            /\ (r.result.returned => ~r.result.completedCleanly)

C5_Witness ==
    \E t \in Pairs :
        /\ testers[t].result.returned
        /\ testers[t].exit.left /\ testers[t].exit.err = ErrTimeout
        /\ ~testers[t].exit.stopSeen
        /\ testers[t].submissions = 4

\* C6 (as claimed): a main loop that ends on a non-transient error returns
\* completedCleanly = false.
C6_FatalMeansErrored ==
    \A t \in Pairs :
        LET r == testers[t] IN
        (r.exit.left /\ r.exit.err # NoErr /\ ~isTransientError(r.exit.err)) => ~r.exit.clean

\* C6 (amended): a non-transient error is never retried: it ends the main
\* loop at once, with no further submission and no record for the transfer;
\* completedCleanly is false unless the stop signal was already set when the
\* error was handled, and then it stays true.
C6_FatalEndsLoop ==
    \A t \in Pairs :
        LET r == testers[t] IN
        /\ (r.pc = "sleep" => isTransientError(r.err))
        /\ (r.exit.left /\ r.exit.err # NoErr /\ ~isTransientError(r.exit.err)) =>
              /\ r.submissions = r.attempt + 1
              /\ Len(r.transactions) = r.base /\ r.exit.n = r.base
              /\ r.exit.clean = r.exit.stopSeen
              /\ (r.result.returned => r.result.completedCleanly = r.exit.stopSeen)

C6_Witness ==
    \E t \in Pairs :
        /\ testers[t].result.returned /\ ~testers[t].result.completedCleanly
        /\ testers[t].exit.err = ErrReverted
        /\ testers[t].attempt = 1

\* C7: nonceA = initNonceA + (number of A->B records) and nonceB =
\* initNonceB + (number of B->A records); every submission of the main
\* loop, retries included, carries the sender's current local nonce, and
\* the return leg carries nonceB.
C7_NonceTracking ==
    \A t \in Pairs :
        LET r == testers[t] IN
        /\ r.nonceA = r.initNonceA + Count(r, "A->B")
        /\ r.nonceB = r.initNonceB + Count(r, "B->A")
        /\ (r.pc \in InFlight \cup {"sleep"} =>
              /\ r.nonce = NonceOf(r, Sender(r))
              /\ r.pc \in InFlight => r.tx = [from |-> Sender(r), nonce |-> r.nonce])
        /\ (r.pc \in {"retSend", "retWait"} => r.tx = [from |-> "B", nonce |-> r.nonceB])

C7_Witness ==
    \E t \in Pairs :
        /\ testers[t].pc = "retSend" /\ testers[t].retAttempt = 1
        /\ Count(testers[t], "A->B") = 1
        /\ testers[t].initNonceA = 2 /\ testers[t].nonceA = 3
        /\ testers[t].attempt > 0

\* C8: after the main loop a return-leg submission is made iff the number
\* of records is odd; after an even number none is made.
C8_ReturnLegIffOdd ==
    \A t \in Pairs :
        LET r == testers[t] IN
        /\ (~r.exit.left => r.retSubmissions = 0)
        /\ (r.exit.left => (r.retSubmissions > 0 <=> r.exit.n % 2 = 1))
        /\ (r.exit.left /\ r.exit.n % 2 = 0 => r.pc = "done" /\ r.result.returned)

C8_Witness ==
    \E t \in Pairs :
        /\ testers[t].exit.left /\ testers[t].exit.n = 1 /\ ~testers[t].exit.clean
        /\ testers[t].retSubmissions = 1 /\ testers[t].pc = "retSend"

\* C9 (as claimed, for the standard path): when runTester returns and its
\* return leg, if one was attempted, succeeded, the ledger has the cent on
\* account A.
C9_Conservation ==
    [][\A t \in Pairs :
        (/\ ~immediateReceipt
         /\ testers[t].pc # "done" /\ testers'[t].pc = "done"
         /\ (testers'[t].retSubmissions > 0 => testers[t].pc = "retWait" /\ testers'[t].err = NoErr))
        => ledger'[t].unitOn = "A"]_vars

\* C10: the return leg makes at most 4 submissions, sleeps 500, 1000, 2000 ms
\* after transient failures only, adds no record and leaves erroredOut
\* alone: the result carries the records and the clean flag of the moment
\* the main loop was left.
C10_ReturnLegRetries ==
    \A t \in Pairs :
        LET r == testers[t] IN
        /\ r.retSubmissions <= MAX_RETRIES + 1
        /\ r.retSleeps = FirstBackoffs(Len(r.retSleeps))
        /\ (r.pc \in {"retSend", "retWait"} =>
              r.retSubmissions = r.retAttempt + 1 /\ Len(r.retSleeps) = r.retAttempt)
        /\ (r.pc = "retSleep" => isTransientError(r.err) /\ Len(r.retSleeps) = r.retSubmissions)
        /\ (r.exit.left => Len(r.transactions) = r.exit.n /\ r.erroredOut = ~r.exit.clean)
        /\ (r.result.returned =>
              /\ r.result.transactions = r.transactions
              /\ r.result.completedCleanly = r.exit.clean
              /\ (r.retSubmissions > 0 /\ r.err # NoErr /\ isTransientError(r.err)
                    => r.retSubmissions = MAX_RETRIES + 1 /\ r.retSleeps = Backoffs))

C10_Witness ==
    \E t \in Pairs :
        /\ testers[t].result.returned /\ testers[t].result.completedCleanly
        /\ testers[t].retSubmissions = 4 /\ testers[t].err = ErrServer
        /\ Len(testers[t].result.transactions) = 1

\* C11 (as claimed): no runTester call ends by raising, whatever fails, and
\* so runTest is never kept from collecting the results and computing the
\* summary.
C11_AlwaysReturns ==
    /\ \A t \in Pairs : testers[t].pc # "raised"
    /\ runPc # "aborted"

DirectionAt(i) == IF i % 2 = 0 THEN "A->B" ELSE "B->A"

C13_Alternate ==
    \A t \in Pairs :
        LET r == testers[t] IN
        /\ \A i \in 0..(Len(r.transactions) - 1) :
              r.transactions[i + 1].direction = DirectionAt(i)
        /\ (r.result.returned /\ r.exit.stopSeen /\ r.exit.n = 2) =>
              /\ Len(r.result.transactions) = 2
              /\ r.result.transactions[1].direction = "A->B"
              /\ r.result.transactions[2].direction = "B->A"
              /\ r.result.completedCleanly
              /\ r.retSubmissions = 0

C13_Witness ==
    \E t \in Pairs :
        /\ testers[t].result.returned /\ testers[t].exit.stopSeen
        /\ testers[t].exit.n = 2 /\ testers[t].exit.err = NoErr
        /\ testers[t].result.completedCleanly /\ ~immediateReceipt

\* C14: in every step a Tester takes with the stop signal already set it
\* begins no main-loop submission; if the step appends a record (the
\* transfer that was in flight) it appends one and leaves the main loop, and
\* a Tester that was sleeping in a retry backoff leaves the main loop without
\* a further attempt.  After the main loop no record is appended.  So at
\* most one record is appended after the stop instant.
C14_NoNewTransferAfterStop ==
    [][\A t \in Pairs :
        /\ (stopped /\ testers'[t] # testers[t]) =>
              /\ testers'[t].submissions = testers[t].submissions
              /\ testers'[t].pc \notin {"send", "sleep"}
              /\ testers'[t].pc = "wait" => testers[t].pc = "send"
              /\ testers'[t].transactions # testers[t].transactions =>
                    /\ Len(testers'[t].transactions) = Len(testers[t].transactions) + 1
                    /\ testers'[t].exit.left /\ ~testers[t].exit.left
              /\ testers[t].pc = "sleep" =>
                    /\ testers'[t].exit.left
                    /\ testers'[t].transactions = testers[t].transactions
        /\ testers[t].exit.left => testers'[t].transactions = testers[t].transactions]_vars

\* C14 witness: a Tester was woken from its backoff with the signal set and
\* left the main loop: as many submissions as sleeps, none after the last.
C14_Witness ==
    \E t \in Pairs :
        /\ stopped /\ testers[t].exit.left /\ testers[t].exit.stopSeen
        /\ Len(testers[t].sleeps) = 2 /\ testers[t].submissions = 2
        /\ Len(testers[t].transactions) = 1

\* C15: stopSignal.stopped starts false, only ever changes from false to
\* true, and changes only in a step of the timer callback or of the SIGINT
\* handler: no step of a Tester (or of the ledger) changes it.
C15_StopSignalLatch ==
    /\ ~stopped
    /\ [][/\ stopped => stopped'
          /\ stopped' # stopped =>
                /\ testers' = testers /\ ledger' = ledger
                /\ runPc = "running" /\ runPc' = runPc
                /\ testEndTime' = now /\ stopInstant' = now]_vars

\* C15 witness: the SIGINT handler set the signal, the timer callback ran
\* later, and the signal is still set.
C15_Witness ==
    /\ stopped /\ timer = "fired" /\ stopInstant < testEndTime
    /\ \E t \in Pairs : testers[t].stopRead = "set"

\* C16 (as claimed): if the stop signal is eventually set (and endpoint
\* calls return and submitted transactions are executed, which FairSpec
\* grants), every Tester eventually returns its result and runTest
\* eventually computes the summary.
C16_EventuallySummary ==
    <>stopped => <>(AllReturned /\ runPc = "done")

\* What holds instead: the run ends, with the summary or aborted by a
\* Tester whose start-up reads failed.
C16_EventuallyEnds ==
    <>stopped => <>(runPc \in {"done", "aborted"})

\* C17: a blocked waiter always has its callback in the registry, so a
\* "block" event wakes every waiter blocked at that moment and nobody else;
\* each woken waiter has exactly one read outstanding, and when that read is
\* answered only this call moves, by the receipt of its own transaction: it
\* returns on status 1, throws "reverted on-chain" on status 0, and with no
\* receipt registers a fresh callback and blocks again.
InProgress == {c \in Calls : calls[c].pc \notin Ended \cup {"idle"}}

C17_Fanout ==
    /\ [](\A c \in Calls : calls[c].pc = "blocked" => Callback(c, calls[c].iter) \in waiters)
    /\ [][/\ blocks' # blocks =>
                \A c \in Calls :
                    /\ calls'[c].pc = IF calls[c].pc = "blocked" THEN "read" ELSE calls[c].pc
                    /\ calls'[c].iter = calls[c].iter
          /\ \A c \in Calls :
                (calls[c].pc = "read" /\ calls'[c].pc \notin {"read", "failed"}) =>
                    /\ \A d \in Calls \ {c} : calls'[d] = calls[d]
                    /\ Found(c) = "ok" => calls'[c].pc = "returned"
                    /\ Found(c) = "reverted" => calls'[c].pc = "reverted"
                    /\ (Found(c) = "none" /\ ~destroyed) =>
                          /\ calls'[c].pc = "blocked" /\ calls'[c].iter = calls[c].iter + 1
                          /\ Callback(c, calls[c].iter + 1) \in waiters'
                    /\ (Found(c) = "none" /\ destroyed) => calls'[c].pc = "last"]_vars

\* C17 witness: three registered waiters, one "block" event; the two whose
\* transaction was executed are done, the third registered again.
C17_Witness ==
    /\ blocks = 1 /\ ~destroyed
    /\ calls[1].pc = "returned" /\ calls[1].iter = 1
    /\ calls[2].pc = "blocked" /\ calls[2].iter = 2 /\ receipt[2] = "none"
    /\ calls[3].pc = "reverted" /\ calls[3].iter = 1

\* C18 (as claimed): a call that ends after destroy(), its reads having
\* been answered, returns a receipt if its last read finds one and otherwise
\* fails with "connection closed".
C18_ReceiptOrClosed ==
    [][\A c \in Calls :
        (destroyed /\ calls'[c] # calls[c] /\ calls'[c].pc \in Ended \ {"failed"}) =>
            calls'[c].pc = IF Found(c) = "none" THEN "closed" ELSE "returned"]_vars

\* C18 (amended): once destroy() was called no call is blocked, and every call in
\* progress ends (its reads being answered); a call that ends after
\* destroy() otherwise than by a failed read ends by the receipt its last
\* read found (returned, or "reverted on-chain" on status 0) and, finding
\* none in its last read, by "connection closed".
C18_DestroyTerminates ==
    /\ destroyed ~> (InProgress = {})
    /\ [](destroyed => \A c \in Calls : calls[c].pc # "blocked")
    /\ [][\A c \in Calls :
            (destroyed /\ calls'[c] # calls[c] /\ calls'[c].pc \in Ended \ {"failed"}) =>
                IF Found(c) = "none"
                THEN calls[c].pc = "last" /\ calls'[c].pc = "closed"
                ELSE calls'[c].pc = Settle(Found(c))]_vars

\* C18 witness: destroy() came with call 1 registered and no block event
\* ever delivered; call 1 and call 2 (never registered) ended with
\* "connection closed", call 3 with its receipt.
C18_Witness ==
    /\ destroyed /\ blocks = 0
    /\ calls[1].pc = "closed" /\ calls[1].iter = 1
    /\ calls[2].pc = "closed" /\ calls[2].iter = 0
    /\ calls[3].pc = "returned" /\ calls[3].iter = 1

\* C19 (as claimed): the registry holds only callbacks of waiters that are
\* blocked now, and never more entries than there are calls in progress.
C19_RegistryOnlyBlocked ==
    /\ waiters \subseteq {Callback(c, calls[c].iter) : c \in {d \in Calls : calls[d].pc = "blocked"}}
    /\ Cardinality(waiters) <= Cardinality(InProgress)

\* C20: createReceiptStrategy returns the immediate strategy whenever
\* immediateReceipt is set, wsUrl or not; otherwise polling without a wsUrl;
\* otherwise it awaits the connection race and returns the ws strategy iff
\* ready won it, which it can within 5000 ms only, and polling when the
\* connection failed or the 5000 ms timer won.  It never throws.
C20_DecisionTable ==
    /\ [](/\ strategy \in {"call", "connecting", "immediate", "polling", "ws"}
          /\ strategy # "call" =>
                /\ immediateReceipt => strategy = "immediate"
                /\ (~immediateReceipt /\ wsUrl = "undefined") => strategy = "polling"
                /\ (~immediateReceipt /\ wsUrl = "url") =>
                      /\ conn = "-" => strategy = "connecting"
                      /\ conn = "ready" => strategy = "ws"
                      /\ conn \in {"error", "timeout"} => strategy = "polling")
    /\ [][/\ conn' # conn => conn = "-" /\ strategy = "connecting"
          /\ (conn' # conn /\ conn' = "ready") => waited <= WS_READY_TIMEOUT_MS
          /\ (conn' # conn /\ conn' = "timeout") => waited >= WS_READY_TIMEOUT_MS]_vars

\* C20 witness: a wsUrl is configured, the connection did not become ready
\* in 5000 ms, and the polling strategy was returned.
C20_Witness ==
    ~immediateReceipt /\ wsUrl = "url" /\ conn = "timeout" /\ strategy = "polling"

\* C21: the summary counts exactly the records of the results with
\* completedCleanly = true (totalTransactions is the sum of their record
\* counts, totalGasUsed the sum of their gasUsed), and it is the summary of
\* every input that differs only in results with completedCleanly = false:
\* one of them removed, its records replaced, or another one added.
RECURSIVE CleanCount(_)
CleanCount(rs) ==
    IF rs = <<>> THEN 0
    ELSE (IF Head(rs).completedCleanly THEN Len(Head(rs).transactions) ELSE 0)
         + CleanCount(Tail(rs))

RECURSIVE CleanGas(_)
CleanGas(rs) ==
    IF rs = <<>> THEN 0
    ELSE (IF Head(rs).completedCleanly
          THEN Sum([i \in 1..Len(Head(rs).transactions) |-> Head(rs).transactions[i].gasUsed])
          ELSE 0)
         + CleanGas(Tail(rs))

Without(rs, i) == SubSeq(rs, 1, i - 1) \o SubSeq(rs, i + 1, Len(rs))
Computed == statsPc = "done" /\ summary # NoSummary

C21_OnlyCleanCounted ==
    Computed =>
        /\ summary.totalTransactions = CleanCount(results)
        /\ summary.totalGasUsed = CleanGas(results)
        /\ \A i \in 1..Len(results) :
              ~results[i].completedCleanly =>
                  /\ summary = computeStats(Without(results, i), actualDurationMs)
                  /\ \A txs \in SeqsUpTo(TxRecords, MaxTxs) :
                        summary = computeStats([results EXCEPT ![i].transactions = txs],
                                               actualDurationMs)
        /\ \A txs \in SeqsUpTo(TxRecords, MaxTxs) :
              summary = computeStats(Append(results, [completedCleanly |-> FALSE,
                                                      transactions |-> txs]),
                                     actualDurationMs)

\* C21 witness: an errored result with two records next to a clean one with
\* two; the summary counts two.
C21_Witness ==
    /\ Computed /\ Len(results) = 2
    /\ ~results[1].completedCleanly /\ Len(results[1].transactions) = 2
    /\ results[2].completedCleanly /\ Len(results[2].transactions) = 2
    /\ summary.totalTransactions = 2

\* C22: percentile of an ascending list of n latencies is 0 for n = 0 and
\* otherwise the element at index k - 1 clamped to [0, n-1] (from 0), k the
\* least integer with k >= p/100 * n; over [100,200,300,400,500] it is 300
\* for p = 50 and 500 for p = 95 and p = 99.
Clamp(x, lo, hi) == IF x < lo THEN lo ELSE IF x > hi THEN hi ELSE x

C23_Throughput ==
    Computed =>
        IF CleanCount(results) > 0
        THEN /\ summary.transactionsPerSecond.den # 0
             /\ summary.transactionsPerSecond.num * actualDurationMs
                   = CleanCount(results) * MsPerSec * summary.transactionsPerSecond.den
        ELSE /\ summary.totalTransactions = 0
             /\ FracEq(summary.transactionsPerSecond, Whole(0))
             /\ summary.totalGasUsed = 0 /\ summary.avgGasPerTx = 0
             /\ FracEq(summary.avgLatencyMs, Whole(0))
             /\ summary.minLatencyMs = 0 /\ summary.maxLatencyMs = 0
             /\ summary.p50LatencyMs = 0 /\ summary.p95LatencyMs = 0
             /\ summary.p99LatencyMs = 0

\* C23 witness: two clean transfers in 500 ms: 4 per second.
C23_Witness ==
    /\ Computed /\ actualDurationMs = 500 /\ CleanCount(results) = 2
    /\ FracEq(summary.transactionsPerSecond, Whole(4))
    /\ \E i \in 1..Len(results) : ~results[i].completedCleanly

\* --------------------------------------------------------------------- C24
NoCallFailed(m) == \A w \in 1..Len(m.workers) : m.workers[w].pc # "failed"

\* C24: a pMap call with limit >= 1 in which no call of fn fails returns
\* once every call has settled; by then fn was invoked exactly once for
\* every index, and the returned array has the length of items with
\* fn(items[i], i) at position i, whatever order the calls completed in.
C24_OrderedResults ==
    LET m == pmapCall
    IN  /\ (m.pc = "running" /\ NoCallFailed(m)) => Awaiting(m) # {}
        /\ m.pc = "returned" =>
              /\ NoCallFailed(m)
              /\ Len(m.results) = Len(m.items)
              /\ \A j \in 1..Len(m.items) :
                    /\ m.invoked[j] = 1
                    /\ m.results[j] = FnValue(m.items[j], j - 1)

\* Three items on two workers; the second worker's call completed before
\* the first worker's, so it went on to index 2 while index 0 was in flight.
C24_Witness ==
    /\ pmapCall.pc = "returned"
    /\ Len(pmapCall.items) = 3 /\ pmapCall.limit = 2
    /\ pmapCall.workers[1].i = 0 /\ pmapCall.workers[2].i = 2

\* --------------------------------------------------------------------- C25
Claimed(m) == {j \in 1..Len(m.invoked) : m.invoked[j] > 0}
Outstanding(m) == {j \in Claimed(m) : (j - 1) \notin m.settled}

\* C25: in pMap at most min(limit, items.length) calls of fn are
\* outstanding at any moment; no index is claimed twice; the claimed
\* indices are exactly those below nextIndex (none is skipped), and a call
\* that returns has claimed every index below items.length.
C25_BoundedClaims ==
    LET m == pmapCall
    IN  m.pc # "call" =>
          /\ Cardinality(Outstanding(m)) <= Min(m.limit, Len(m.items))
          /\ \A j \in 1..Len(m.items) : m.invoked[j] <= 1
          /\ Claimed(m) = 1..m.nextIndex
          /\ \A v, w \in Awaiting(m) : v # w => m.workers[v].i # m.workers[w].i
          /\ m.pc = "returned" => m.nextIndex = Len(m.items)

\* Two workers over three items: one call has settled and its worker has
\* claimed the last index, so two calls are outstanding again.
C25_Witness ==
    /\ pmapCall.pc = "running"
    /\ Len(pmapCall.items) = 3 /\ pmapCall.limit = 2
    /\ pmapCall.nextIndex = 3
    /\ Cardinality(Outstanding(pmapCall)) = 2
    /\ Cardinality(pmapCall.settled) = 1

\* --------------------------------------------------------------------- C26
\* Every deficiency of every pair, as the report names them.
Deficiencies ==
    {d \in [index : 0..(Len(preflight.balances) - 1), account : {"sender", "receiver"},
             asset : {"USDC", "ETH"}] :
        LET b == preflight.balances[d.index + 1]
        IN  \/ d.account = "sender" /\ d.asset = "USDC" /\ b.senderUsdc < USDC_CENT
            \/ d.account = "sender" /\ d.asset = "ETH" /\ b.senderEth = 0
            \/ d.account = "receiver" /\ d.asset = "ETH" /\ b.receiverEth = 0}

\* C26: when some pair's sender holds less than the transfer amount or one
\* of its accounts holds no fee asset, runTest never creates the strategy,
\* arms the timer or starts a Tester, and no transfer is submitted; once
\* all balance checks are answered runTest has failed with a report, and
\* the report has one entry for every deficiency of every pair.
C26_PreflightFails ==
    /\ Deficiencies # {} =>
          /\ runPc \notin {"strategy", "running"}
          /\ strategy = "call"
          /\ timer = "unarmed"
          /\ \A t \in Pairs : testers[t] = InitTester /\ ledger[t].pool = {}
    /\ (Deficiencies # {} /\ pmapCall.pc = "returned") =>
          runPc = "threw" /\ preflight.reported
    /\ preflight.reported =>
          /\ {preflight.report[k] : k \in 1..Len(preflight.report)} = Deficiencies
          /\ Len(preflight.report) = Cardinality(Deficiencies)

\* Two pairs, the sender of one short of USDC and the receiver of the
\* other without ETH; the second pair's check was answered first.
C26_Witness ==
    /\ runPc = "threw" /\ preflight.reported
    /\ Len(preflight.balances) = 2
    /\ Len(preflight.report) >= 3
    /\ preflight.report[1].index = 1
    /\ \E k \in 1..Len(preflight.report) : preflight.report[k].index = 0

\* --------------------------------------------------------------------- C27
\* C27: pairWallets over an even-length list of distinct wallets gives one
\* pair for every two wallets, pair k being (wallet 2k, wallet 2k+1), so
\* every wallet is in exactly one pair; with one Tester per pair no
\* account is sent from by two Testers.
C27_DisjointPairs ==
    LET ws == pairing.wallets
        ps == pairing.pairs
    IN  /\ pairing.pc \in {"paired", "running"} =>
              /\ 2 * Len(ps) = Len(ws)
              /\ \A k \in 0..(Len(ps) - 1) :
                    ps[k + 1] = [index |-> k, sender |-> ws[2 * k + 1],
                                 receiver |-> ws[2 * k + 2]]
              /\ \A i \in 1..Len(ws) :
                    Cardinality({k \in 1..Len(ps) : ws[i] \in {ps[k].sender, ps[k].receiver}}) = 1
        /\ pairing.pc = "running" =>
              /\ Len(pairing.senders) = Len(ps)
              /\ \A j, k \in 1..Len(ps) :
                    j # k => pairing.senders[j] \cap pairing.senders[k] = {}

\* Two Testers run on four wallets that were not derived in ascending order.
C27_Witness ==
    /\ pairing.pc = "running"
    /\ Len(pairing.wallets) = 4
    /\ Len(pairing.senders) = 2
    /\ pairing.wallets[1] > pairing.wallets[4]

\* --------------------------------------------------------------------- C28
SubmitChannels(t) == {u.ch : u \in {v \in net.used[t] : v.op = "submit"}}

Gap(wps, k) == wps[k + 1].timeMs - wps[k].timeMs

\* C29: for durationMs > 0 the waypoints generateCurve returns have
\* strictly increasing times, the first at 0 with target in [0.1, 0.5],
\* the last at exactly durationMs, every later target in [0.1, 0.95], and
\* every gap in [30 s, 300 s], except that the last gap may be shorter.
C29_Waypoints ==
    LET wps == curveCall.waypoints
        n == Len(wps)
    IN  curveCall.pc = "returned" =>
          /\ n >= 2
          /\ wps[1].timeMs = 0
          /\ wps[1].target >= 100000 /\ wps[1].target <= 500000
          /\ wps[n].timeMs = curveCall.durationMs
          /\ \A k \in 2..n : wps[k].target >= 100000 /\ wps[k].target <= 950000
          /\ \A k \in 1..(n - 1) : wps[k].timeMs < wps[k + 1].timeMs
          /\ \A k \in 1..(n - 2) : Gap(wps, k) >= 30000 /\ Gap(wps, k) <= 300000
          /\ Gap(wps, n - 1) <= 300000

\* A curve for 600,000 ms whose last segment was cut short at the end.
C29_Witness ==
    /\ curveCall.pc = "returned"
    /\ curveCall.durationMs = 600000
    /\ Len(curveCall.waypoints) = 4
    /\ Gap(curveCall.waypoints, 3) < 30000
    /\ curveCall.currentTime > 600000

\* --------------------------------------------------------------------- C30
\* An attempt of the main loop failed in this step: its error was caught.
AttemptFailed(r, q) ==
    /\ r.pc \in {"send", "wait"} /\ ~r.exit.left
    /\ q.pc = "sleep" \/ (q.exit.left /\ q.exit.err # NoErr)

\* C30, first part: an error caught while the stop signal is set, transient
\* or not, is followed by no retry and no record; nonces and direction stay
\* as they were and the main loop is left with erroredOut false.
C30_StoppedStep ==
    \A t \in Pairs :
        LET r == testers[t]
            q == testers'[t]
        IN  (stopped /\ AttemptFailed(r, q)) =>
              /\ q.pc \notin {"send", "wait", "sleep"}
              /\ q.exit.left /\ q.exit.stopSeen /\ q.exit.clean
              /\ ~q.erroredOut
              /\ q.transactions = r.transactions
              /\ q.nonceA = r.nonceA /\ q.nonceB = r.nonceB
              /\ q.usdcOnA = r.usdcOnA /\ q.direction = r.direction
              /\ q.submissions = r.submissions
              /\ (q.result.returned => q.result.completedCleanly)

\* C30, second part: completedCleanly is false only after a transfer whose
\* attempts ended on an error, without a record, while the stop signal was
\* read unset.
C30_ErroredOnlyUnstopped ==
    \A t \in Pairs :
        LET r == testers[t] IN
        (r.erroredOut \/ (r.result.returned /\ ~r.result.completedCleanly)) =>
            /\ r.exit.left /\ ~r.exit.stopSeen /\ ~r.exit.clean
            /\ r.exit.err # NoErr
            /\ r.exit.n = r.base

\* C30: both parts.
C30_StopBeatsError == []C30_ErroredOnlyUnstopped /\ [][C30_StoppedStep]_vars

\* A Tester whose transfer was refused for good while the stop signal was
\* already set has returned completedCleanly = true.
C30_Witness ==
    \E t \in Pairs :
        /\ testers[t].result.returned /\ testers[t].result.completedCleanly
        /\ testers[t].exit.left /\ testers[t].exit.stopSeen
        /\ testers[t].exit.err = ErrReverted
        /\ testers[t].exit.n = testers[t].base

\* --------------------------------------------------------------------- C31
\* The transfers the ledger executed for pair t (the cent moved).
Executed(l) == {rc.tx : rc \in {x \in l.receipts : x.status = 1}}
RecordsOf(r, tx) == {k \in 1..Len(r.transactions) : r.transactions[k].txHash = tx}

\* C31: on the standard path, when the main loop is left every transfer the
\* ledger executed has exactly one record, every record is of an executed
\* transfer, and usdcOnA, nonceA and nonceB are what the ledger holds.
C31_ExactAccount ==
    [][\A t \in Pairs :
        LET r == testers[t]
            q == testers'[t]
            l == ledger'[t]
        IN  (~immediateReceipt /\ ~r.exit.left /\ q.exit.left) =>
              /\ \A tx \in Executed(l) : Cardinality(RecordsOf(q, tx)) = 1
              /\ \A k \in 1..Len(q.transactions) : q.transactions[k].txHash \in Executed(l)
              /\ q.usdcOnA = (l.unitOn = "A")
              /\ q.nonceA = l.nonce["A"] /\ q.nonceB = l.nonce["B"]]_vars

\* --------------------------------------------------------------------- C32
\* C32: a waitForReceipt call never goes to wait for a further "block"
\* event once an event was delivered after the chain executed its
\* transaction: an event that comes while the call awaits its own read is
\* not lost to it.
C32_NoLostBlock ==
    \A c \in Calls : ~(calls[c].pc = "blocked" /\ calls[c].missed)

\* --------------------------------------------------------------------- C33
\* C33: when runTest calls computeStats the stop timestamp has been set
\* (by the timer or the interrupt handler) and the duration passed to
\* computeStats is not negative, also when every Tester returned before the
\* deadline and without an interrupt.
C33_StopStamped ==
    runPc = "done" => (testEndTime # 0 /\ actualDurationMs >= 0)

\* --------------------------------------------------------------------- C34
\* C34: when a call of fn fails, pMap fails with the error of the first
\* call that failed; the worker that hit a failure claims no further index;
\* the failure leaves the counter and the other workers as they are, and a
\* worker whose call completes after pMap failed still claims the next
\* index while one is left.
C34_FailureStep ==
    LET m == pmapCall  n == pmapCall'
    IN  \A w \in 1..Len(m.workers) :
          /\ m.workers[w].pc = "failed" => n.workers[w] = m.workers[w]
          /\ (m.workers[w].pc = "await" /\ n.workers[w].pc = "failed") =>
                /\ n.pc = "rejected"
                /\ n.error = IF m.pc = "running" THEN m.workers[w].i ELSE m.error
                /\ n.nextIndex = m.nextIndex /\ n.invoked = m.invoked
                /\ \A v \in 1..Len(m.workers) \ {w} : n.workers[v] = m.workers[v]
          /\ (m.pc = "rejected" /\ m.workers[w].pc = "await" /\ n.workers[w].pc # "failed"
                /\ n.workers[w] # m.workers[w]) =>
                /\ n.pc = "rejected" /\ n.error = m.error
                /\ IF m.nextIndex < Len(m.items)
                   THEN /\ n.workers[w] = [pc |-> "await", i |-> m.nextIndex]
                        /\ n.invoked[m.nextIndex + 1] = 1
                   ELSE n.workers[w].pc = "done"

C34_NotCancelled == [][C34_FailureStep]_vars

\* Two workers over three items: pMap failed with the error of item 0 when
\* two calls had started; the other worker's call then completed and it
\* started the call for item 2.
C34_Witness ==
    /\ pmapCall.pc = "rejected" /\ pmapCall.error = 0
    /\ pmapCall.startedAtFailure = 2 /\ pmapCall.nextIndex = 3
    /\ pmapCall.workers[1].pc = "failed"
    /\ pmapCall.workers[2] = [pc |-> "await", i |-> 2]

\* --------------------------------------------------------------------- C35
\* The delays the claim names, in twentieths of a millisecond.
PollFirstDelay(e) == IF 8 * e < 10 * MIN_POLL_INTERVAL_MS THEN MIN_POLL_INTERVAL_MS * DelayScale
                 ELSE (8 * e * DelayScale) \div 10
PollGap(e) == IF e < 4 * MIN_POLL_INTERVAL_MS THEN MIN_POLL_INTERVAL_MS * DelayScale
          ELSE IF e > 4 * MAX_POLL_INTERVAL_MS THEN MAX_POLL_INTERVAL_MS * DelayScale
          ELSE (e * DelayScale) \div 4

C35_Delays ==
    LET p == poll
    IN  p.pc # "call" =>
          /\ p.sleeps[1] = PollFirstDelay(p.expectedMs)
          /\ \A k \in 2..Len(p.sleeps) : p.sleeps[k] = PollGap(p.expectedMs)
          /\ \A k \in 1..Len(p.readAt) :
                p.readAt[k] >= PollFirstDelay(p.expectedMs) + (k - 1) * PollGap(p.expectedMs)
          /\ \A k \in 2..Len(p.readAt) : p.readAt[k] - p.readAt[k - 1] >= PollGap(p.expectedMs)
          /\ p.pc = "returned" => p.answer \in {"status1", "statusNull"}
          /\ p.pc = "threw" => p.answer = "status0"

\* The call ends only in the turn in which a read of it resolves or rejects.
C35_EndsOnRead ==
    (poll.pc \notin {"returned", "threw", "failed"}
        /\ poll'.pc \in {"returned", "threw", "failed"}) =>
      (poll.pc = "read" /\ poll'.answer # "null")

\* C35: adaptive polling issues no receipt read until max(0.8 * estimate,
\* 50 ms) has elapsed after the call, then sleeps clamp(estimate / 4, 50 ms,
\* 1000 ms) between one read and the next; it returns only with a receipt
\* of non-zero status, throws on a receipt of status 0, and ends at no other
\* moment than the answer of a read (it has no timeout).
C35_AdaptivePolling == []C35_Delays /\ [][C35_EndsOnRead]_vars

\* An estimate of 40 ms: both delays are the 50 ms floor; the third read
\* found the receipt.
C35_Witness ==
    /\ poll.pc = "returned" /\ poll.expectedMs = 40
    /\ poll.sleeps = <<1000, 1000, 1000>> /\ Len(poll.readAt) = 3

\* --------------------------------------------------------------------- C36
\* The estimate lies between the smallest and the largest of the baseline
\* and the confirmation times observed, and is the baseline while none was.
C36_Bounded ==
    LET e == estimate
        all == {e.baseline} \cup e.observed
    IN  e.pc # "idle" =>
          /\ \E lo \in all : lo <= e.expectedConfirmMs
          /\ \E hi \in all : e.expectedConfirmMs <= hi
          /\ e.observed = {} => e.expectedConfirmMs = e.baseline

\* The estimate changes only in a successful confirmation on the standard
\* path, and every such confirmation sets it to the integer nearest to
\* 0.7 * old + 0.3 * observed.
C36_UpdateStep ==
    LET e == estimate  n == estimate'
        confirmed == e.pc = "loop" /\ ~e.immediateReceipt /\ n.confirms = e.confirms + 1
    IN  /\ n.expectedConfirmMs # e.expectedConfirmMs => confirmed
        /\ confirmed =>
              LET tenfold == 7 * e.expectedConfirmMs + 3 * n.last
              IN  /\ 10 * n.expectedConfirmMs - tenfold <= 5
                  /\ tenfold - 10 * n.expectedConfirmMs <= 5

\* C36: a Tester's estimate starts at the baseline, is replaced by
\* round(0.7 * old + 0.3 * observed) after each successful confirmation on
\* the standard path and at no other time (failed attempt, immediate
\* mode, return leg), and always lies between the smallest and the largest
\* of the baseline and the observed confirmation times.
C36_Estimate == []C36_Bounded /\ [][C36_UpdateStep]_vars

\* Baseline 2000 ms, then confirmations after 250, 36 and 36 ms, a failed
\* attempt and the return leg: 2000 -> 1475 -> 1043 -> 741.
C36_Witness ==
    /\ estimate.pc = "done" /\ ~estimate.usdcOnA /\ estimate.baseline = 2000
    /\ estimate.observed = {250, 36} /\ estimate.last = 36
    /\ estimate.confirms = 3 /\ estimate.failures = 1
    /\ estimate.expectedConfirmMs = 741

\* --------------------------------------------------------------------- C37
\* Targets are counted in millionths.
BetweenTargets(x, a, b) ==
    \/ FracLe(Whole(a), x) /\ FracLe(x, Whole(b))
    \/ FracLe(Whole(b), x) /\ FracLe(x, Whole(a))

\* C37: after tick(elapsedMs) currentTarget is the first waypoint's target
\* when elapsedMs <= 0, the last waypoint's target when elapsedMs is at or
\* past the last waypoint's time, and otherwise the linear interpolation
\* between the two waypoints that bracket elapsedMs; it lies between the
\* two bracketing targets and within [0, 1].
C37_Interpolation ==
    LET c == tickCall
        w == c.waypoints
        n == Len(w)
        t == c.last
    IN  (c.pc = "ready" /\ c.ticks > 0) =>
          /\ t <= 0 => FracEq(c.currentTarget, Whole(w[1].target))
          /\ t >= w[n].timeMs => FracEq(c.currentTarget, Whole(w[n].target))
          /\ (t > 0 /\ t < w[n].timeMs) =>
                \E k \in 1..(n - 1) :
                    /\ w[k].timeMs <= t /\ t < w[k + 1].timeMs
                    /\ LET g == Gcd(t - w[k].timeMs, w[k + 1].timeMs - w[k].timeMs)
                           p == (t - w[k].timeMs) \div g
                           q == (w[k + 1].timeMs - w[k].timeMs) \div g
                       IN  /\ c.currentTarget.den = q
                           /\ c.currentTarget.num - w[k].target * q
                                = p * (w[k + 1].target - w[k].target)
                    /\ BetweenTargets(c.currentTarget, w[k].target, w[k + 1].target)
          /\ c.currentTarget.den > 0
          /\ FracLe(Whole(0), c.currentTarget) /\ FracLe(c.currentTarget, Whole(1000000))

\* A curve of three waypoints ticked inside its second segment, where the
\* target falls.
C37_Witness ==
    /\ tickCall.pc = "ready" /\ tickCall.ticks > 0 /\ tickCall.last = 100000
    /\ Len(tickCall.waypoints) = 3
    /\ tickCall.waypoints[2].timeMs = 30000
    /\ tickCall.waypoints[2].target > tickCall.waypoints[3].target
    /\ ~FracEq(tickCall.currentTarget, Whole(tickCall.waypoints[2].target))

\* --------------------------------------------------------------------- C38
\* Equal elapsed times gave equal targets, whatever was ticked in between.
C38_SameTimeSameTarget ==
    \A p, q \in tickCall.seen : p[1] = q[1] => FracEq(p[2], q[2])

\* A tick leaves the waypoint list alone.
C38_WaypointsKept ==
    (tickCall.pc = "ready" /\ tickCall'.pc = "ready") =>
        tickCall'.waypoints = tickCall.waypoints

\* C38: the target tick(t) produces depends on t and the waypoint list
\* only: within a run every tick with the same elapsed time produces the
\* same target, whatever ticks were made before it, and no tick modifies
\* the waypoint list.
C38_Pure == []C38_SameTimeSameTarget /\ [][C38_WaypointsKept]_vars

\* The same elapsed time ticked first and third, with a tick elsewhere in
\* between that moved the target.
C38_Witness ==
    /\ tickCall.pc = "ready" /\ tickCall.ticks = 3 /\ tickCall.last = 15000
    /\ Cardinality(tickCall.seen) = 2
    /\ \E p \in tickCall.seen : p[1] = 300000 /\ ~FracEq(p[2], tickCall.currentTarget)

\* --------------------------------------------------------------------- C39
\* The latencies of the transfers of the clean Testers.
CleanLatencies ==
    UNION {{results[i].transactions[k].latencyMs : k \in 1..Len(results[i].transactions)} :
              i \in {j \in 1..Len(results) : results[j].completedCleanly}}

\* C39: for every input of computeStats with at least one clean transfer
\* the summary has min <= p50 <= p95 <= p99 <= max and min <= avg <= max,
\* and each of min, p50, p95, p99 and max is the latency of a clean record.
C39_OrderedLatencies ==
    (statsPc = "done" /\ summary # NoSummary /\ summary.totalTransactions > 0) =>
        /\ summary.minLatencyMs <= summary.p50LatencyMs
        /\ summary.p50LatencyMs <= summary.p95LatencyMs
        /\ summary.p95LatencyMs <= summary.p99LatencyMs
        /\ summary.p99LatencyMs <= summary.maxLatencyMs
        /\ FracLe(Whole(summary.minLatencyMs), summary.avgLatencyMs)
        /\ FracLe(summary.avgLatencyMs, Whole(summary.maxLatencyMs))
        /\ {summary.minLatencyMs, summary.p50LatencyMs, summary.p95LatencyMs,
             summary.p99LatencyMs, summary.maxLatencyMs} \subseteq CleanLatencies

\* Four clean transfers that arrive slow, fast, slow, fast: the median is
\* the fast latency, p95 the slow one, the average lies strictly between.
C39_Witness ==
    /\ statsPc = "done" /\ summary # NoSummary /\ summary.totalTransactions = 4
    /\ results[1].completedCleanly /\ results[2].completedCleanly
    /\ results[1].transactions[1].latencyMs > results[1].transactions[2].latencyMs
    /\ summary.p50LatencyMs < summary.p95LatencyMs
    /\ ~FracEq(summary.avgLatencyMs, Whole(summary.minLatencyMs))

\* --------------------------------------------------------------------- C40
\* C40: sweepFunds sends no ETH sweep from any wallet (it does not even
\* call sendTransaction) before every USDC sweep it started is confirmed,
\* and starts no transaction at all when every derived wallet is empty or
\* the user declines.
C40_UsdcBeforeEth ==
    sweep.pc # "idle" =>
      LET n == Len(sweep.balances)
      IN  /\ (\E k \in 1..n : sweep.ethTx[k] # "none") =>
                \A k \in 1..n :
                    /\ sweep.usdcTx[k] \in {"none", "confirmed"}
                    /\ sweep.balances[k].usdc > 0 => sweep.usdcTx[k] = "confirmed"
          /\ sweep.pc \in {"empty", "cancelled"} =>
                \A k \in 1..n : sweep.usdcTx[k] = "none" /\ sweep.ethTx[k] = "none"
          /\ sweep.pc = "empty" <=>
                (sweep.i > n /\ \A k \in 1..n : sweep.balances[k].eth = 0
                                                /\ sweep.balances[k].usdc = 0)

\* Two wallets holding USDC and ETH: both USDC sweeps are confirmed, the
\* ETH sweep of the first is submitted, that of the second being prepared.
C40_Witness ==
    /\ sweep.pc = "ethWait" /\ Len(sweep.balances) = 2
    /\ sweep.usdcTx = <<"confirmed", "confirmed">>
    /\ sweep.ethTx = <<"sent", "preparing">>

====
